---------------------------- MODULE Spec2Model ----------------------------
(***************************************************************************)
(* A model of illex: the newline scan of the buffering client              *)
(* (JSONBuffer::Scan), the buffering client's receive loop                 *)
(* (BufferingClient::ReceiveJSONs) with its consumers, and the producer    *)
(* pool with the streaming server (Producer::Start, ProductionThread,      *)
(* Server::SendJSONs).                                                     *)
(*                                                                         *)
(* Offsets into a buffer are 0-based as in the C++ code; the byte at       *)
(* offset k of a buffer with contents d is d[k + 1].  size_t and uint64_t  *)
(* arithmetic is arithmetic modulo WordMod.                                *)
(***************************************************************************)
EXTENDS Integers, Sequences, FiniteSets, Bags, TLC

(***************************************************************************)
(* Bounds of the model.                                                    *)
(***************************************************************************)
\* Longest slice handed to a stand-alone Scan.
MaxLen == 5
\* Modulus standing for 2^64, the width of size_t and Seq.
WordMod == 8
\* Number of buffer/mutex pairs handed to the buffering client.
NumBuffers == 2
\* Capacity of each buffer handed to the buffering client.
Capacity == 3
\* Longest byte stream the peer sends to the client in one session.
MaxStream == 4
\* Largest ProducerOptions::num_threads, num_batches and num_jsons, largest
\* RepeatOptions::times, and the number of batches the production queue holds.
MaxThreads == 2
MaxBatches == 3
MaxJsons == 2
MaxTimes == 2
QueueCap == 2
\* Number of bytes of one serialised JSON document.
JsonBytes == 2
\* Largest number of top-level fields of a generated document.
MaxFields == 1
\* Largest number of Close calls made on one client or server.
MaxCloses == 3
\* Largest num_samples, num_stages and sample_interval of a LatencyTracker.
MaxSamples == 2
MaxStages == 2
MaxInterval == 2
\* The size of the receive buffer of the queueing client, in the place of
\* ILLEX_DEFAULT_TCP_BUFSIZE.
TcpBufSize == 3
\* Latest time point a clock reads; 0 is the default-constructed TimePoint.
MaxClock == 2

(***************************************************************************)
(* Program constants.                                                      *)
(***************************************************************************)
\* The record separator '\n' searched for by memchr.
NL == 10
\* The result of memchr when no separator is found.
nullptr == -1

\* The byte values of the model: the separator and one other byte ('x').
Bytes == {NL, 120}

VARIABLES
  \* ---- a stand-alone call of JSONBuffer::Scan ----
  scan_pc,        \* "idle", "call", "loop", "exit" or "done"
  scan_data,      \* the bytes of the buffer scanned
  scan_seq,       \* the argument seq
  scan_st,        \* the locals json_start, json_end, remaining, num_jsons
  scan_range,     \* the buffer's seq_range
  scan_result     \* the pair returned

scanVars == <<scan_pc, scan_data, scan_seq, scan_st, scan_range, scan_result>>

VARIABLES
  \* ---- the connection of a buffering client ----
  stream,         \* all bytes the peer sends in this session
  wire,           \* the bytes of stream not yet read by the client
  sock_valid,     \* client->is_valid()
  must_be_closed, \* BufferingClient::must_be_closed
  \* ---- the buffers and mutexes handed to the client ----
  buf_cap,        \* capacity_ of each buffer
  buf_data,       \* the bytes last written at the front of each buffer
  buf_size,       \* size_ of each buffer
  buf_range,      \* seq_range of each buffer
  mutex,          \* who holds each mutex: "free", "client" or "consumer"
  \* ---- BufferingClient::ReceiveJSONs ----
  c_pc,           \* "idle", "call", "loop", "try", "sleep", "recv", "scan", "returned"
  c_status,       \* the Status returned: "none", "OK" or "ClientError"
  c_i,            \* the index i of the loop of TryGetEmptyBuffer
  lock_idx,       \* the local lock_idx
  remaining,      \* the local remaining
  spill,          \* the first `remaining` bytes of the spill region
  spill_live,     \* whether the spill region is allocated
  spill_frees,    \* how often the spill region was freed
  seq0,           \* ClientOptions::seq
  seq,            \* BufferingClient::seq
  jsons_received_,
  bytes_received_,
  \* ---- the consumer thread of each buffer ----
  cons_pc,        \* "poll", "lock" or "hold"
  \* ---- history ----
  published,      \* size and range of each buffer the client gave a size > 0
  published_bytes,\* sum of all sizes the client has set
  num_reads       \* number of socket reads that returned bytes

connVars == <<stream, wire, sock_valid, must_be_closed>>
bufVars == <<buf_cap, buf_data, buf_size, buf_range, mutex>>
clientVars == <<c_pc, c_status, c_i, lock_idx, remaining, spill, spill_live,
                spill_frees, seq0, seq, jsons_received_, bytes_received_>>
histVars == <<published, published_bytes, num_reads>>
sessionVars == <<connVars, bufVars, clientVars, cons_pc, histVars>>

VARIABLES
  \* ---- Server::SendJSONs ----
  opts,             \* num_threads, num_batches, num_jsons, batching, times
  s_pc,             \* "idle", "repeat", "outer", "dequeue", "check", "send",
                    \* "finish", "returned" or "terminated"
  s_status,         \* the Status returned: "none", "OK" or "ServerError"
  repeats,          \* the loop variable repeats
  num_messages,     \* the local num_messages
  total_messages,   \* the local total_messages
  shutdown,         \* the atomic flag shared with the workers
  batch,            \* the local batch
  metrics,          \* *metrics, the StreamMetrics handed back
  production_queue, \* the batches in the production queue
  peer_alive,       \* whether the accepted client socket is healthy
  \* ---- the threads of the Producer of the current repetition ----
  w_pc,             \* "none", "gen", "enq" or "done"
  w_args,           \* the arguments num_batches and num_items of each thread
  w_b,              \* the loop variable b
  w_batch,          \* the batch a thread tries to enqueue
  w_metrics,        \* the local metrics of each thread
  joinable,         \* threads_[t].joinable()
  \* ---- history ----
  rep_sent,         \* records written to the socket in this repetition
  peer_loss_seen,   \* whether the server saw the peer gone while waiting
  send_failed,      \* whether the server saw a send fail
  sock_bytes,       \* bytes written to the socket in this repetition
  deq_bytes,        \* bytes of the batches handed to send in this repetition
  \* ---- the Producer as used on its own ----
  p_pc,             \* its owner: "none", "made", "started" or "finished"
  metrics_,         \* Producer::metrics_
  num_dequeued,     \* batches its owner has taken from the queue
  \* ---- history of the current run of the pool ----
  enqueued,         \* the bag of the batches the queue has accepted
  late_batches      \* per thread: batches generated after shutdown was set

serverVars == <<opts, s_pc, s_status, repeats, num_messages, total_messages,
                shutdown, batch, metrics, production_queue, peer_alive>>
workerVars == <<w_pc, w_args, w_b, w_batch, w_metrics, joinable>>
poolHist == <<rep_sent, peer_loss_seen, send_failed, sock_bytes, deq_bytes>>
producerVars == <<p_pc, metrics_, num_dequeued, enqueued, late_batches>>
poolVars == <<serverVars, workerVars, poolHist, producerVars>>

VARIABLES
  \* ---- one batch of a ProductionThread ----
  pt_opt,         \* whitespace, whitespace_char, pretty, fields, num_items
  pt_pc,          \* "idle", "items", "batch", "enqueue" or "queued"
  pt_m,           \* the loop variable m
  pt_buffer,      \* the bytes in the rapidjson StringBuffer
  pt_batch        \* the JSONBatch built from the buffer

batchVars == <<pt_opt, pt_pc, pt_m, pt_buffer, pt_batch>>

VARIABLES
  \* ---- a JSONBuffer used through its interface ----
  jb,             \* its fields capacity, size, seq_range and recv_time
  jb_call         \* the last call made on it: op, arg and the Status returned

bufferVars == <<jb, jb_call>>

VARIABLES
  \* ---- one client and one server, created and closed ----
  cl_kind,        \* "buffering" or "queueing"
  cl_args,        \* the lengths of the vectors handed to BufferingClient::Create
  cl,             \* the client: created (Status of Create), must_be_closed, sock
  cl_hist,        \* connects, sock_closes, close_calls, closes_since_ok, ret
  sv,             \* the server: created (Status of Create) and sock
  sv_hist         \* close_calls, threw, ret

lifeVars == <<cl_kind, cl_args, cl, cl_hist, sv, sv_hist>>

VARIABLES
  \* ---- a LatencyTracker ----
  lt,             \* num_samples, num_stages, sample_interval and points
  lt_now,         \* the time point the steady clock reads
  lt_call         \* the last call: op, a (seq or index), stage, value, ret,
                  \* oob, and prev (what a Put found in the slot it stored to)

trackerVars == <<lt, lt_now, lt_call>>

VARIABLES
  \* ---- a session of a queueing client ----
  q_stream,          \* all bytes the peer sends in this session
  q_wire,            \* the bytes of q_stream not yet read by the client
  q_sock_valid,      \* client->is_valid()
  q_pc,              \* "idle", "loop", "recv" or "returned"
  q_status,          \* the Status returned: "none", "OK" or "ClientError"
  json_string,       \* the local json_string of ReceiveJSONs
  q_seq0,            \* options.seq
  q_seq,             \* the member seq
  queue,             \* the items enqueued, in the order of their enqueue
  received_,         \* QueueingClient::received_
  q_bytes_received_, \* QueueingClient::bytes_received_
  buffer_size,       \* QueueingClient::buffer_size, the bytes allocated
  q_written          \* the number of bytes from the start of the receive
                     \* buffer up to the last byte written so far

queueingVars == <<q_stream, q_wire, q_sock_valid, q_pc, q_status, json_string,
                  q_seq0, q_seq, queue, received_, q_bytes_received_,
                  buffer_size, q_written>>

VARIABLES
  \* ---- RunFile (file.cpp) on top of the producer pool ----
  f_opt,             \* FileOptions: [verbose, has_path, can_open]
  f_pc,              \* "idle", "start", "open", "loop", "finish" or "returned"
  f_status,          \* the Status returned: "none", "OK" or "IOError"
  f_num_jsons,       \* the local num_jsons of RunFile
  f_out,             \* what went to the stream *o, batch by batch
  f_ofs              \* what went to the file ofs, batch by batch

fileVars == <<f_opt, f_pc, f_status, f_num_jsons, f_out, f_ofs>>

apiVars == <<batchVars, bufferVars, lifeVars, trackerVars, queueingVars,
             fileVars>>

vars == <<scanVars, sessionVars, poolVars, apiVars>>

(***************************************************************************)
(* Unsigned arithmetic of size_t / uint64_t.                               *)
(***************************************************************************)
UAdd(a, b) == (a + b) % WordMod
USub(a, b) == (a - b + WordMod) % WordMod

\* The least element of a non-empty set of integers.
Min(S) == CHOOSE x \in S : \A y \in S : x <= y

\* All byte sequences of length at most n.
SlicesUpTo(n) == UNION {[1..k -> Bytes] : k \in 0..n}

(***************************************************************************)
(* JSONBuffer::Scan                                                        *)
(***************************************************************************)
\* std::memchr(start, '\n', n): the offset of the first separator among the
\* n bytes from offset start on, or nullptr.
Memchr(d, start, n) ==
  LET hits == {k \in start..(start + n - 1) : d[k + 1] = NL}
  IN  IF hits = {} THEN nullptr ELSE Min(hits)

\* The locals of Scan before the loop.
ScanEnterState(d, num_bytes) ==
  [json_start |-> 0, json_end |-> Len(d), remaining |-> num_bytes, num_jsons |-> 0]

\* Whether Scan moves json_start past the separator found at json_end.
ScanAdvances(json_start, json_end) == json_start # json_end - 1

\* One pass through the body of the do-while loop.
ScanBody(d, num_bytes, st) ==
  LET json_end == Memchr(d, st.json_start, st.remaining)
  IN  IF json_end = nullptr
      THEN [st EXCEPT !.json_end = nullptr]
      ELSE LET json_len == json_end - st.json_start
               start    == IF ScanAdvances(st.json_start, json_end)
                           THEN json_end + 1
                           ELSE st.json_start
           IN  [json_start |-> start,
                json_end   |-> json_end,
                remaining  |-> num_bytes - start,
                num_jsons  |-> IF json_len > 0
                               THEN UAdd(st.num_jsons, 1)
                               ELSE st.num_jsons]

\* The condition of the do-while loop.
ScanRepeats(st) == st.json_end # nullptr /\ st.json_start # st.json_end

\* The range Scan stores in the buffer.
ScanRange(first, num_jsons) ==
  [first |-> first, last |-> USub(UAdd(first, num_jsons), 1)]

\* Scan as a function: the loop run to its end.  A pass that finds a
\* separator and leaves json_start (hence remaining) where it was is followed
\* by the same pass again, for ever: hang is TRUE and Scan does not return.
RECURSIVE ScanLoop(_, _, _)
ScanLoop(d, num_bytes, st) ==
  LET nx == ScanBody(d, num_bytes, st)
  IN  IF ~ScanRepeats(nx)
      THEN [num_jsons |-> nx.num_jsons, remaining |-> nx.remaining, hang |-> FALSE]
      ELSE IF nx.json_start = st.json_start /\ nx.remaining = st.remaining
           THEN [num_jsons |-> nx.num_jsons, remaining |-> nx.remaining, hang |-> TRUE]
           ELSE ScanLoop(d, num_bytes, nx)

Scan(d, num_bytes) == ScanLoop(d, num_bytes, ScanEnterState(d, num_bytes))

\* The buffers of a session.
Buffers == 0..(NumBuffers - 1)

\* No client session takes place.
SessionIdle ==
  /\ stream = <<>> /\ wire = <<>> /\ sock_valid = FALSE /\ must_be_closed = FALSE
  /\ buf_cap = <<>> /\ buf_data = <<>> /\ buf_size = <<>> /\ buf_range = <<>>
  /\ mutex = <<>>
  /\ c_pc = "idle" /\ c_status = "none" /\ c_i = 0 /\ lock_idx = 0
  /\ remaining = 0 /\ spill = <<>> /\ spill_live = FALSE /\ spill_frees = 0
  /\ seq0 = 0 /\ seq = 0 /\ jsons_received_ = 0 /\ bytes_received_ = 0
  /\ cons_pc = <<>>
  /\ published = <<>> /\ published_bytes = 0 /\ num_reads = 0

\* The threads a Producer can have.
Threads == 0..(MaxThreads - 1)

NoBatch == [gen |-> <<0, 0>>, data_len |-> 0, num_jsons |-> 0]
NoMetrics == [num_jsons |-> 0, num_batches |-> 0, num_chars |-> 0]

\* No server runs.
PoolIdle ==
  /\ opts = [num_threads |-> 1, num_batches |-> 1, num_jsons |-> 1,
             batching |-> FALSE, times |-> 1, seed |-> 0]
  /\ s_pc = "idle" /\ s_status = "none" /\ repeats = 0
  /\ num_messages = 0 /\ total_messages = 0 /\ shutdown = FALSE
  /\ batch = NoBatch
  /\ metrics = [num_messages |-> 0, num_bytes |-> 0, producer |-> NoMetrics]
  /\ production_queue = <<>>
  /\ peer_alive = FALSE
  /\ w_pc = <<>> /\ w_args = <<>> /\ w_b = <<>> /\ w_batch = <<>>
  /\ w_metrics = <<>> /\ joinable = <<>>
  /\ rep_sent = 0 /\ peer_loss_seen = FALSE /\ send_failed = FALSE
  /\ sock_bytes = 0 /\ deq_bytes = 0
  /\ p_pc = "none" /\ metrics_ = NoMetrics /\ num_dequeued = 0
  /\ enqueued = EmptyBag /\ late_batches = <<>>

NoBatchOptions == [whitespace |-> TRUE, whitespace_char |-> NL, pretty |-> FALSE,
                   fields |-> 0, num_items |-> 0]
NoJSONBatch == [data |-> <<>>, num_jsons |-> 0]

\* No batch is being assembled.
BatchIdle ==
  /\ pt_opt = NoBatchOptions
  /\ pt_pc = "idle"
  /\ pt_m = 0
  /\ pt_buffer = <<>>
  /\ pt_batch = NoJSONBatch

\* A default-constructed JSONBuffer and the absence of a call.
NoJSONBuffer == [capacity |-> 0, size |-> 0, seq_range |-> [first |-> 0, last |-> 0],
                 recv_time |-> 0]
NoCall == [op |-> "none", arg |-> 0, status |-> "none"]

\* No JSONBuffer is used on its own.
BufferIdle ==
  /\ jb = NoJSONBuffer
  /\ jb_call = NoCall

\* A default-constructed client and server, before any call.
NoClient == [created |-> "no", must_be_closed |-> FALSE, sock |-> "none"]
NoClientHist == [connects |-> 0, sock_closes |-> 0, close_calls |-> 0,
                 closes_since_ok |-> 0, ret |-> "none"]
NoServer == [created |-> "no", sock |-> "none"]
NoServerHist == [close_calls |-> 0, threw |-> FALSE, ret |-> "none"]

\* No client or server is created or closed.
LifeIdle ==
  /\ cl_kind = "buffering"
  /\ cl_args = [num_buffers |-> 0, num_mutexes |-> 0]
  /\ cl = NoClient /\ cl_hist = NoClientHist
  /\ sv = NoServer /\ sv_hist = NoServerHist

\* LatencyTracker(num_samples, num_stages, sample_interval): the array of
\* num_samples * num_stages default-constructed time points.
NewTracker(samples, stages, interval) ==
  [num_samples |-> samples, num_stages |-> stages, sample_interval |-> interval,
   points |-> [k \in 0..(samples * stages - 1) |-> 0]]
NoTrackerCall == [op |-> "none", a |-> 0, stage |-> 0, value |-> 0,
                  ret |-> "none", oob |-> FALSE, prev |-> 0]

\* No call is made on the tracker.
TrackerUnused ==
  /\ lt_now = 0
  /\ lt_call = NoTrackerCall

\* No tracker is in use.
TrackerIdle ==
  /\ lt = NewTracker(1, 1, 1)
  /\ TrackerUnused

\* The tracker handed to ReceiveJSONs of a session: one stage, every
\* sequence number a sample.
ClientTracker == NewTracker(MaxSamples, 1, 1)

\* No session of a queueing client takes place.
QueueingIdle ==
  /\ q_stream = <<>> /\ q_wire = <<>> /\ q_sock_valid = FALSE
  /\ q_pc = "idle" /\ q_status = "none"
  /\ json_string = <<>>
  /\ q_seq0 = 0 /\ q_seq = 0
  /\ queue = <<>>
  /\ received_ = 0 /\ q_bytes_received_ = 0
  /\ buffer_size = 0 /\ q_written = 0

NoFileOptions == [verbose |-> FALSE, has_path |-> FALSE, can_open |-> FALSE]

\* RunFile is not called.
FileIdle ==
  /\ f_opt = NoFileOptions
  /\ f_pc = "idle" /\ f_status = "none"
  /\ f_num_jsons = 0
  /\ f_out = <<>> /\ f_ofs = <<>>

\* None of the objects outside the scan, the session and the pool is in use.
ApiIdle ==
  /\ BatchIdle
  /\ BufferIdle
  /\ LifeIdle
  /\ TrackerIdle
  /\ QueueingIdle
  /\ FileIdle

(***************************************************************************)
(* A stand-alone call b.Scan(strlen(str), seq) on a buffer holding str,    *)
(* as in GetResultFrom of the tests, one loop pass per step.               *)
(***************************************************************************)
NoScanState == [json_start |-> 0, json_end |-> 0, remaining |-> 0, num_jsons |-> 0]
NoRange == [first |-> 0, last |-> 0]

\* No stand-alone scan takes place.
ScanIdle ==
  /\ scan_pc = "idle"
  /\ scan_data = <<>>
  /\ scan_seq = 0
  /\ scan_st = NoScanState
  /\ scan_range = NoRange
  /\ scan_result = <<0, 0>>

InitScan ==
  /\ SessionIdle
  /\ PoolIdle
  /\ ApiIdle
  /\ scan_pc = "call"
  /\ scan_data \in SlicesUpTo(MaxLen)
  /\ scan_seq \in 0..(WordMod - 1)
  /\ scan_st = NoScanState
  /\ scan_range = NoRange
  /\ scan_result = <<0, 0>>

ScanEnter ==
  /\ scan_pc = "call"
  /\ scan_st' = ScanEnterState(scan_data, Len(scan_data))
  /\ scan_pc' = "loop"
  /\ UNCHANGED <<scan_data, scan_seq, scan_range, scan_result, sessionVars, poolVars, apiVars>>

ScanIterate ==
  /\ scan_pc = "loop"
  /\ scan_st' = ScanBody(scan_data, Len(scan_data), scan_st)
  /\ scan_pc' = IF ScanRepeats(scan_st') THEN "loop" ELSE "exit"
  /\ UNCHANGED <<scan_data, scan_seq, scan_range, scan_result, sessionVars, poolVars, apiVars>>

ScanReturn ==
  /\ scan_pc = "exit"
  /\ scan_range' = ScanRange(scan_seq, scan_st.num_jsons)
  /\ scan_result' = <<scan_st.num_jsons, scan_st.remaining>>
  /\ scan_pc' = "done"
  /\ UNCHANGED <<scan_data, scan_seq, scan_st, sessionVars, poolVars, apiVars>>

NextScan == ScanEnter \/ ScanIterate \/ ScanReturn

SpecScan == InitScan /\ [][NextScan]_vars

\* The thread that called Scan keeps running.
FairSpecScan == SpecScan /\ WF_vars(NextScan)


(***************************************************************************)
(* BufferingClient::ReceiveJSONs on up to NumBuffers buffers, one consumer *)
(* thread per buffer (ConsumeBufferThread of the tests, repeated).         *)
(***************************************************************************)
\* The initial sequence numbers tried: the default and the largest value.
SeqSeeds == {0, WordMod - 1}

\* The number of bytes recv may write: buf->capacity() - remaining.
RecvCount(cap, rem) == USub(cap, rem)

\* A faulty count of the bytes: = where += is meant.
AddBytesOverwrite(total, bytes_received) == bytes_received

\* this->bytes_received_ += bytes_received
AddBytes(total, bytes_received) == UAdd(total, bytes_received)

\* A faulty scan size: the bytes carried over are left out.
ScanSizeNoSpill(rem, bytes_received) == bytes_received

\* The number of bytes handed to Scan.
ScanSize(rem, bytes_received) == UAdd(rem, bytes_received)

\* A faulty client that does not advance its sequence number.
NextSeqStuck(s, num_jsons) == s

\* this->seq += scan.first
NextSeq(s, num_jsons) == UAdd(s, num_jsons)

\* The size the client gives the buffer: scan_size - remaining.
NewSize(scan_size, rem) == USub(scan_size, rem)

\* Whether JSONBuffer::SetSize accepts the size.
SetSizeOKStrict(size, cap) == size < cap
SetSizeOK(size, cap) == size <= cap

\* The front of the buffer after the copy from the spill region and the read.
BufferFill(sp, rem, chunk) == SubSeq(sp, 1, rem) \o chunk

\* The bytes copied to the spill region: rem bytes from offset size on.
SpillOut(d, size, rem) == SubSeq(d, size + 1, size + rem)

\* A loop over the buffers that leaves out the last one.
num_buffers_but_last == Cardinality(DOMAIN buf_cap) - 1

\* const size_t num_buffers = buffers.size()
num_buffers == Cardinality(DOMAIN buf_cap)

\* A buffer whose mutex is free is taken whatever its size.
BufferAvailableAnySize(size, m) == m = "free"

\* if (buffers[i]->empty()) if (mutexes[i]->try_lock())
BufferAvailable(size, m) == size = 0 /\ m = "free"

\* A loop that tries again at once when no buffer could be had.
AfterFailedTrySpin == "loop"

\* Where the loop goes when TryGetEmptyBuffer returned false: to the sleep.
AfterFailedTry == "sleep"

\* The client is created with 1 to NumBuffers buffers, all empty, and as many
\* mutexes, all free.
InitClient ==
  /\ ScanIdle
  /\ PoolIdle
  /\ BatchIdle
  /\ BufferIdle
  /\ LifeIdle
  /\ lt = ClientTracker
  /\ TrackerUnused
  /\ QueueingIdle
  /\ FileIdle
  /\ stream \in SlicesUpTo(MaxStream)
  /\ wire = stream
  /\ sock_valid = TRUE
  /\ must_be_closed = TRUE
  /\ \E K \in {B \in SUBSET Buffers : \E k \in 1..NumBuffers : B = 0..(k - 1)} :
       /\ buf_cap = [i \in K |-> Capacity]
       /\ buf_data = [i \in K |-> <<>>]
       /\ buf_size = [i \in K |-> 0]
       /\ buf_range = [i \in K |-> NoRange]
       /\ mutex = [i \in K |-> "free"]
       /\ cons_pc = [i \in K |-> "poll"]
  /\ c_pc = "call" /\ c_status = "none" /\ c_i = 0 /\ lock_idx = 0
  /\ remaining = 0 /\ spill = <<>> /\ spill_live = FALSE /\ spill_frees = 0
  /\ seq0 \in SeqSeeds
  /\ seq = seq0
  /\ jsons_received_ = 0 /\ bytes_received_ = 0
  /\ published = <<>> /\ published_bytes = 0 /\ num_reads = 0

\* ReceiveJSONs up to the loop: the spill region is allocated.
ReceiveEnter ==
  /\ c_pc = "call"
  /\ spill_live' = TRUE
  /\ remaining' = 0
  /\ spill' = <<>>
  /\ c_pc' = "loop"
  /\ UNCHANGED <<apiVars, poolVars, scanVars, connVars, bufVars, cons_pc, histVars, c_status, c_i,
                 lock_idx, spill_frees, seq0, seq, jsons_received_, bytes_received_>>

\* while (client->is_valid()); after the loop free(spill) and return OK.
LoopCheck ==
  /\ c_pc = "loop"
  /\ IF sock_valid
     THEN /\ c_pc' = "try"
          /\ c_i' = 0
          /\ UNCHANGED <<c_status, spill_live, spill_frees>>
     ELSE /\ spill_live' = FALSE
          /\ spill_frees' = spill_frees + 1
          /\ c_status' = "OK"
          /\ c_pc' = "returned"
          /\ UNCHANGED c_i
  /\ UNCHANGED <<apiVars, poolVars, scanVars, connVars, bufVars, cons_pc, histVars, lock_idx,
                 remaining, spill, seq0, seq, jsons_received_, bytes_received_>>

\* One pass of the loop of TryGetEmptyBuffer, or its return of false.
TryGetEmptyBuffer ==
  /\ c_pc = "try"
  /\ IF c_i < num_buffers
     THEN IF BufferAvailable(buf_size[c_i], mutex[c_i])
          THEN /\ mutex' = [mutex EXCEPT ![c_i] = "client"]
               /\ lock_idx' = c_i
               /\ c_pc' = "recv"
               /\ UNCHANGED c_i
          ELSE /\ c_i' = c_i + 1
               /\ UNCHANGED <<mutex, lock_idx, c_pc>>
     ELSE /\ c_pc' = AfterFailedTry
          /\ UNCHANGED <<mutex, lock_idx, c_i>>
  /\ UNCHANGED <<apiVars, poolVars, scanVars, connVars, buf_cap, buf_data, buf_size, buf_range,
                 cons_pc, histVars, c_status, remaining, spill, spill_live,
                 spill_frees, seq0, seq, jsons_received_, bytes_received_>>

\* No buffer was free: sleep_for(100 us) and go round the loop.
Sleep ==
  /\ c_pc = "sleep"
  /\ c_pc' = "loop"
  /\ UNCHANGED <<apiVars, poolVars, scanVars, connVars, bufVars, cons_pc, histVars, c_status, c_i,
                 lock_idx, remaining, spill, spill_live, spill_frees, seq0, seq,
                 jsons_received_, bytes_received_>>


\* The rest of a loop pass once recv has returned the bytes chunk with the
\* socket status sock_status: lines 164 to 202 of client_buffering.cpp.
AfterRecv(chunk, sock_status) ==
  LET i         == lock_idx
      d         == BufferFill(spill, remaining, chunk)
      scan_size == ScanSize(remaining, Len(chunk))
      scan      == Scan(d, scan_size)
      size      == NewSize(scan_size, scan.remaining)
  IN  /\ wire' = SubSeq(wire, Len(chunk) + 1, Len(wire))
      /\ bytes_received_' = AddBytes(bytes_received_, Len(chunk))
      /\ num_reads' = IF Len(chunk) > 0 THEN num_reads + 1 ELSE num_reads
      /\ buf_data' = [buf_data EXCEPT ![i] = d]
      /\ IF scan.hang
         THEN \* Scan does not return.
              /\ c_pc' = "scan"
              /\ UNCHANGED <<buf_size, buf_range, mutex, c_status, remaining, spill,
                             spill_live, spill_frees, seq, jsons_received_,
                             published, published_bytes>>
         ELSE /\ buf_range' = [buf_range EXCEPT ![i] = ScanRange(seq, scan.num_jsons)]
              /\ seq' = NextSeq(seq, scan.num_jsons)
              /\ jsons_received_' = UAdd(jsons_received_, scan.num_jsons)
              /\ remaining' = scan.remaining
              /\ IF ~SetSizeOK(size, buf_cap[i])
                 THEN \* ILLEX_ROE returns the error of SetSize.
                      /\ c_status' = "ClientError"
                      /\ c_pc' = "returned"
                      /\ UNCHANGED <<buf_size, mutex, spill, spill_live, spill_frees,
                                     published, published_bytes>>
                 ELSE /\ buf_size' = [buf_size EXCEPT ![i] = size]
                      /\ spill' = SpillOut(d, size, scan.remaining)
                      /\ published_bytes' = published_bytes + size
                      /\ published' =
                           IF size > 0
                           THEN Append(published,
                                       [size |-> size,
                                        range |-> ScanRange(seq, scan.num_jsons)])
                           ELSE published
                      /\ CASE sock_status = "cleanly_disconnected" ->
                                /\ mutex' = [mutex EXCEPT ![i] = "free"]
                                /\ spill_live' = FALSE
                                /\ spill_frees' = spill_frees + 1
                                /\ c_status' = "OK"
                                /\ c_pc' = "returned"
                           [] sock_status = "valid" ->
                                /\ mutex' = [mutex EXCEPT ![i] = "free"]
                                /\ c_pc' = "loop"
                                /\ UNCHANGED <<c_status, spill_live, spill_frees>>
                           [] OTHER ->
                                /\ c_status' = "ClientError"
                                /\ c_pc' = "returned"
                                /\ UNCHANGED <<mutex, spill_live, spill_frees>>
      /\ UNCHANGED <<apiVars, poolVars, scanVars, stream, sock_valid, must_be_closed, buf_cap, cons_pc,
                     c_i, lock_idx, seq0>>

\* recv returns between 1 and count bytes of the stream.
RecvData ==
  /\ c_pc = "recv"
  /\ sock_valid
  /\ \E n \in 1..Len(wire) :
       /\ n <= RecvCount(buf_cap[lock_idx], remaining)
       /\ AfterRecv(SubSeq(wire, 1, n), "valid")

\* recv returns 0 bytes: the peer has sent everything and closed the
\* connection, or recv was asked for 0 bytes.
RecvDisconnect ==
  /\ c_pc = "recv"
  /\ sock_valid
  /\ Len(wire) = 0 \/ RecvCount(buf_cap[lock_idx], remaining) = 0
  /\ AfterRecv(<<>>, "cleanly_disconnected")

\* recv fails: no bytes and the socket status errored.
RecvError ==
  /\ c_pc = "recv"
  /\ AfterRecv(<<>>, "errored")

\* An exception is thrown while the buffer is locked and caught at line 206.
RecvThrow ==
  /\ c_pc = "recv"
  /\ c_status' = "ClientError"
  /\ c_pc' = "returned"
  /\ UNCHANGED <<apiVars, poolVars, scanVars, connVars, bufVars, cons_pc, histVars, c_i, lock_idx,
                 remaining, spill, spill_live, spill_frees, seq0, seq,
                 jsons_received_, bytes_received_>>

\* BufferingClient::Close, called by the owner of the client.
Close ==
  /\ c_pc # "idle"
  /\ must_be_closed
  /\ sock_valid' = FALSE
  /\ must_be_closed' = FALSE
  /\ UNCHANGED <<apiVars, poolVars, scanVars, stream, wire, bufVars, clientVars, cons_pc, histVars>>

\* ConsumeBufferThread: the consumer of buffer i finds it non-empty.
ConsumerSee(i) ==
  /\ c_pc # "idle"
  /\ cons_pc[i] = "poll"
  /\ buf_size[i] > 0
  /\ cons_pc' = [cons_pc EXCEPT ![i] = "lock"]
  /\ UNCHANGED <<apiVars, poolVars, scanVars, connVars, bufVars, clientVars, histVars>>

\* ... locks its mutex ...
ConsumerLock(i) ==
  /\ cons_pc[i] = "lock"
  /\ mutex[i] = "free"
  /\ mutex' = [mutex EXCEPT ![i] = "consumer"]
  /\ cons_pc' = [cons_pc EXCEPT ![i] = "hold"]
  /\ UNCHANGED <<apiVars, poolVars, scanVars, connVars, buf_cap, buf_data, buf_size, buf_range,
                 clientVars, histVars>>

\* ... and resets the buffer (JSONBuffer::Reset) and unlocks.
ConsumerReset(i) ==
  /\ cons_pc[i] = "hold"
  /\ buf_size' = [buf_size EXCEPT ![i] = 0]
  /\ buf_range' = [buf_range EXCEPT ![i] = NoRange]
  /\ mutex' = [mutex EXCEPT ![i] = "free"]
  /\ cons_pc' = [cons_pc EXCEPT ![i] = "poll"]
  /\ UNCHANGED <<apiVars, poolVars, scanVars, connVars, buf_cap, buf_data, clientVars, histVars>>

ClientStep ==
  \/ ReceiveEnter
  \/ LoopCheck
  \/ TryGetEmptyBuffer
  \/ Sleep
  \/ RecvData
  \/ RecvDisconnect
  \/ RecvError
  \/ RecvThrow

ConsumerStep == \E i \in DOMAIN buf_cap : ConsumerSee(i) \/ ConsumerLock(i) \/ ConsumerReset(i)

NextClient == ClientStep \/ Close \/ ConsumerStep

SpecClient == InitClient /\ [][NextClient]_vars


(***************************************************************************)
(* Producer::Start: the split of the work over the threads.                *)
(***************************************************************************)
\* jsons_remainder as computed before batching is looked at.
JsonsRemainder(o) ==
  LET jsons_per_thread == o.num_jsons \div o.num_threads
  IN  IF jsons_per_thread = 0 THEN o.num_jsons
      ELSE o.num_jsons % jsons_per_thread

\* jsons_per_thread, recalculated if batching is enabled.
JsonsPerThread(o) ==
  IF o.batching THEN o.num_jsons ELSE o.num_jsons \div o.num_threads

\* batches_per_thread.
BatchesPerThread(o) ==
  IF o.batching THEN o.num_batches \div o.num_threads ELSE 1

\* batches_remainder.
BatchesRemainder(o) ==
  IF o.batching
  THEN IF BatchesPerThread(o) = 0 THEN o.num_batches
       ELSE o.num_batches % BatchesPerThread(o)
  ELSE 0

\* thread_jsons and thread_batches, the arguments of ProductionThread.
ThreadJsons(o, thread) ==
  JsonsPerThread(o) + (IF thread = 0 THEN JsonsRemainder(o) ELSE 0)

ThreadBatches(o, thread) ==
  BatchesPerThread(o) + (IF thread = 0 THEN BatchesRemainder(o) ELSE 0)

\* The threads Start spawns.
Spawned(o) == 0..(o.num_threads - 1)

(***************************************************************************)
(* ProductionThread.  A thread runs as long as the process does: after     *)
(* std::terminate no thread takes a step.                                  *)
(***************************************************************************)
\* A pool whose threads all draw from the generator of the same seed.
ThreadSeedShared(seed, thread_id) == seed

\* gen_opt.seed += thread_id
ThreadSeed(seed, thread_id) == seed + thread_id

\* The batch of num_items documents, each followed by the separator.  Its
\* bytes are the serialised draws first .. first + num_items - 1 of the
\* generator seeded with seed, which is what gen names.
MakeBatch(seed, first, num_items) ==
  [gen      |-> <<seed, first>>,
   data_len |-> num_items * (JsonBytes + 1),
   num_jsons |-> num_items]

\* An enqueue loop that does not look at the shutdown flag.
EnqueueLoopEndsNoShutdown(accepted, sd) == accepted

\* while (!queue->try_enqueue(batch) && !shutdown->load()) ends.
EnqueueLoopEnds(accepted, sd) == accepted \/ sd

\* The documents of one batch are generated and serialised.  The draws made
\* so far by the generator of the thread are metrics.num_jsons.
WorkerGenerate(t) ==
  /\ s_pc # "terminated"
  /\ w_pc[t] = "gen"
  /\ w_b[t] < w_args[t].num_batches
  /\ LET b == MakeBatch(ThreadSeed(opts.seed, t), w_metrics[t].num_jsons,
                        w_args[t].num_items)
     IN  /\ w_batch' = [w_batch EXCEPT ![t] = b]
         /\ w_metrics' = [w_metrics EXCEPT ![t] =
               [num_jsons   |-> @.num_jsons + w_args[t].num_items,
                num_batches |-> @.num_batches + 1,
                num_chars   |-> @.num_chars + b.data_len]]
  /\ w_pc' = [w_pc EXCEPT ![t] = "enq"]
  /\ late_batches' = [late_batches EXCEPT ![t] = IF shutdown THEN @ + 1 ELSE @]
  /\ UNCHANGED <<apiVars, scanVars, sessionVars, serverVars, w_args, w_b, joinable,
                 poolHist, p_pc, metrics_, num_dequeued, enqueued>>

\* One try of the enqueue loop.  A failed try without shutdown sleeps and
\* tries again; otherwise the thread goes on to its next batch.
WorkerEnqueue(t) ==
  /\ s_pc # "terminated"
  /\ w_pc[t] = "enq"
  /\ LET accepted == Len(production_queue) < QueueCap
     IN  /\ production_queue' = IF accepted
                                THEN Append(production_queue, w_batch[t])
                                ELSE production_queue
         /\ enqueued' = IF accepted
                        THEN enqueued (+) SetToBag({w_batch[t]})
                        ELSE enqueued
         /\ IF EnqueueLoopEnds(accepted, shutdown)
            THEN /\ w_b' = [w_b EXCEPT ![t] = @ + 1]
                 /\ w_pc' = [w_pc EXCEPT ![t] = "gen"]
            ELSE UNCHANGED <<w_b, w_pc>>
  /\ UNCHANGED <<apiVars, scanVars, sessionVars, opts, s_pc, s_status, repeats,
                 num_messages, total_messages, shutdown, batch, metrics,
                 peer_alive, w_args, w_batch, w_metrics, joinable, poolHist,
                 p_pc, metrics_, num_dequeued, late_batches>>

\* After the last batch the thread fulfils its promise and ends.
WorkerExit(t) ==
  /\ s_pc # "terminated"
  /\ w_pc[t] = "gen"
  /\ w_b[t] >= w_args[t].num_batches
  /\ w_pc' = [w_pc EXCEPT ![t] = "done"]
  /\ UNCHANGED <<apiVars, scanVars, sessionVars, serverVars, w_args, w_b, w_batch,
                 w_metrics, joinable, poolHist, producerVars>>

WorkerStep(t) == WorkerGenerate(t) \/ WorkerEnqueue(t) \/ WorkerExit(t)


(***************************************************************************)
(* Server::SendJSONs, from the accepted connection on.                     *)
(***************************************************************************)
RECURSIVE SumOf(_, _)
\* The sum of f[x] over the x in S.
SumOf(f, S) ==
  IF S = {} THEN 0
  ELSE LET x == CHOOSE y \in S : TRUE IN f[x] + SumOf(f, S \ {x})

\* What Producer::Finish adds up: the metrics of all threads.
ThreadTotals ==
  [num_jsons   |-> SumOf([t \in Threads |-> w_metrics[t].num_jsons], Threads),
   num_batches |-> SumOf([t \in Threads |-> w_metrics[t].num_batches], Threads),
   num_chars   |-> SumOf([t \in Threads |-> w_metrics[t].num_chars], Threads)]

\* A sum of metrics that leaves out the characters.
AddMetricsNoChars(m, rhs) ==
  [num_jsons   |-> m.num_jsons + rhs.num_jsons,
   num_batches |-> m.num_batches + rhs.num_batches,
   num_chars   |-> m.num_chars]

\* ProductionMetrics::operator+=
AddMetrics(m, rhs) ==
  [num_jsons   |-> m.num_jsons + rhs.num_jsons,
   num_batches |-> m.num_batches + rhs.num_batches,
   num_chars   |-> m.num_chars + rhs.num_chars]

\* Producer::Start: the threads are spawned with their share of the work.
Start ==
  /\ w_pc' = [t \in Threads |-> IF t \in Spawned(opts) THEN "gen" ELSE "none"]
  /\ w_args' = [t \in Threads |->
                  IF t \in Spawned(opts)
                  THEN [num_batches |-> ThreadBatches(opts, t),
                        num_items   |-> ThreadJsons(opts, t)]
                  ELSE [num_batches |-> 0, num_items |-> 0]]
  /\ w_b' = [t \in Threads |-> 0]
  /\ w_batch' = [t \in Threads |-> NoBatch]
  /\ w_metrics' = [t \in Threads |-> NoMetrics]
  /\ joinable' = [t \in Threads |-> t \in Spawned(opts)]
  /\ enqueued' = EmptyBag
  /\ late_batches' = [t \in Threads |-> 0]

\* The seed a run gets: opts.gen.seed = 0, as in the tests.
BaseSeeds == {0}

InitServer ==
  /\ ScanIdle
  /\ SessionIdle
  /\ ApiIdle
  /\ opts \in [num_threads : 1..MaxThreads, num_batches : 0..MaxBatches,
               num_jsons : 0..MaxJsons, batching : BOOLEAN, times : 1..MaxTimes,
               seed : {0}]
  /\ s_pc = "repeat" /\ s_status = "none" /\ repeats = 0
  /\ num_messages = 0 /\ total_messages = 0 /\ shutdown = FALSE
  /\ batch = NoBatch
  /\ metrics = [num_messages |-> 0, num_bytes |-> 0, producer |-> NoMetrics]
  /\ production_queue = <<>>
  /\ peer_alive = TRUE
  /\ w_pc = [t \in Threads |-> "none"]
  /\ w_args = [t \in Threads |-> [num_batches |-> 0, num_items |-> 0]]
  /\ w_b = [t \in Threads |-> 0]
  /\ w_batch = [t \in Threads |-> NoBatch]
  /\ w_metrics = [t \in Threads |-> NoMetrics]
  /\ joinable = [t \in Threads |-> FALSE]
  /\ rep_sent = 0 /\ peer_loss_seen = FALSE /\ send_failed = FALSE
  /\ sock_bytes = 0 /\ deq_bytes = 0
  /\ p_pc = "none" /\ metrics_ = NoMetrics /\ num_dequeued = 0
  /\ enqueued = EmptyBag
  /\ late_batches = [t \in Threads |-> 0]

\* A return from inside the repetition: the Status is built, then the local
\* shared_ptr<Producer> is destroyed, and with it the vector of std::thread.
\* The destructor of a joinable std::thread calls std::terminate.
ReturnFromLoop(status) ==
  IF \E t \in Threads : joinable[t]
  THEN s_pc' = "terminated" /\ s_status' = "none"
  ELSE s_pc' = "returned" /\ s_status' = status

\* The head of the repetition loop: either a new repetition begins, with a
\* fresh shutdown flag and a started Producer, or SendJSONs returns OK.
SrvRepeat ==
  /\ s_pc = "repeat"
  /\ IF repeats < opts.times
     THEN /\ num_messages' = 0
          /\ total_messages' = opts.num_batches * opts.num_jsons
          /\ shutdown' = FALSE
          /\ Start
          /\ rep_sent' = 0
          /\ sock_bytes' = 0
          /\ deq_bytes' = 0
          /\ s_pc' = "outer"
          /\ UNCHANGED s_status
     ELSE /\ s_pc' = "returned"
          /\ s_status' = "OK"
          /\ UNCHANGED <<num_messages, total_messages, shutdown, workerVars,
                         rep_sent, sock_bytes, deq_bytes, enqueued, late_batches>>
  /\ UNCHANGED <<apiVars, scanVars, sessionVars, opts, repeats, batch, metrics,
                 production_queue, peer_alive, peer_loss_seen, send_failed,
                 p_pc, metrics_, num_dequeued>>

\* while ((num_messages != total_messages) && !shutdown.load())
SrvOuter ==
  /\ s_pc = "outer"
  /\ s_pc' = IF num_messages # total_messages /\ ~shutdown THEN "dequeue" ELSE "finish"
  /\ UNCHANGED <<apiVars, scanVars, sessionVars, opts, s_status, repeats, num_messages,
                 total_messages, shutdown, batch, metrics, production_queue,
                 peer_alive, workerVars, poolHist, producerVars>>

\* while (!production_queue.try_dequeue(batch) && !shutdown.load()): one try.
SrvDequeue ==
  /\ s_pc = "dequeue"
  /\ IF production_queue # <<>>
     THEN /\ batch' = Head(production_queue)
          /\ production_queue' = Tail(production_queue)
          /\ s_pc' = "send"
     ELSE /\ batch' = NoBatch
          /\ s_pc' = IF shutdown THEN "send" ELSE "check"
          /\ UNCHANGED production_queue
  /\ UNCHANGED <<apiVars, scanVars, sessionVars, opts, s_status, repeats, num_messages,
                 total_messages, shutdown, metrics, peer_alive, workerVars,
                 poolHist, producerVars>>

\* After the sleep: if (!client.get_status()) { shutdown.store(true); return ... }
SrvCheckClient ==
  /\ s_pc = "check"
  /\ IF ~peer_alive
     THEN /\ shutdown' = TRUE
          /\ peer_loss_seen' = TRUE
          /\ ReturnFromLoop("ServerError")
     ELSE /\ s_pc' = "dequeue"
          /\ UNCHANGED <<shutdown, peer_loss_seen, s_status>>
  /\ UNCHANGED <<apiVars, scanVars, sessionVars, opts, repeats, num_messages,
                 total_messages, batch, metrics, production_queue, peer_alive,
                 workerVars, rep_sent, send_failed, sock_bytes, deq_bytes,
                 producerVars>>

\* The byte counts a send of len bytes can report together with the status
\* valid: the socket may take only a part of the bytes.
SendCounts(len) == IF len = 0 THEN {0} ELSE 1..len

\* client.send(batch): the status of the result is looked at, its byte count
\* is not; then the records of the batch are counted.
SrvSend ==
  /\ s_pc = "send"
  /\ IF peer_alive
     THEN /\ \E n \in SendCounts(batch.data_len) : sock_bytes' = sock_bytes + n
          /\ deq_bytes' = deq_bytes + batch.data_len
          /\ num_messages' = num_messages + batch.num_jsons
          /\ rep_sent' = rep_sent + batch.num_jsons
          /\ s_pc' = "outer"
          /\ UNCHANGED <<s_status, send_failed>>
     ELSE /\ send_failed' = TRUE
          /\ ReturnFromLoop("ServerError")
          /\ UNCHANGED <<num_messages, rep_sent, sock_bytes, deq_bytes>>
  /\ UNCHANGED <<apiVars, scanVars, sessionVars, opts, repeats, total_messages, shutdown,
                 batch, metrics, production_queue, peer_alive, workerVars,
                 peer_loss_seen, producerVars>>

\* producer->Finish() joins every thread and sums their metrics; then the
\* statistics are updated, the seed is increased and the repetition ends.
SrvFinish ==
  /\ s_pc = "finish"
  /\ \A t \in Spawned(opts) : w_pc[t] = "done"
  /\ joinable' = [t \in Threads |-> FALSE]
  /\ metrics' =
       [num_messages |-> metrics.num_messages + num_messages,
        num_bytes    |-> metrics.num_bytes,
        producer     |-> AddMetrics(metrics.producer, ThreadTotals)]
  /\ repeats' = repeats + 1
  /\ opts' = [opts EXCEPT !.seed = @ + 42]
  /\ s_pc' = "repeat"
  /\ UNCHANGED <<apiVars, scanVars, sessionVars, s_status, num_messages,
                 total_messages, shutdown, batch, production_queue, peer_alive,
                 w_pc, w_args, w_b, w_batch, w_metrics, poolHist, producerVars>>

\* The client goes away.
PeerLoss ==
  /\ s_pc \notin {"idle", "returned", "terminated"}
  /\ peer_alive
  /\ peer_alive' = FALSE
  /\ UNCHANGED <<apiVars, scanVars, sessionVars, opts, s_pc, s_status, repeats,
                 num_messages, total_messages, shutdown, batch, metrics,
                 production_queue, workerVars, poolHist, producerVars>>

ServerStep ==
  \/ SrvRepeat
  \/ SrvOuter
  \/ SrvDequeue
  \/ SrvCheckClient
  \/ SrvSend
  \/ SrvFinish

NextServer == ServerStep \/ PeerLoss \/ \E t \in Threads : WorkerStep(t)

SpecServer == InitServer /\ [][NextServer]_vars

\* Every thread that can take a step eventually does.
FairSpecServer ==
  /\ SpecServer
  /\ WF_vars(ServerStep)
  /\ \A t \in Threads : WF_vars(WorkerStep(t))


(***************************************************************************)
(* A Producer used on its own, as its interface allows: Make, Start with   *)
(* a shutdown flag of the owner, Finish; the owner may set the flag and    *)
(* may take batches from the queue.                                        *)
(***************************************************************************)
InitProducer ==
  /\ ScanIdle
  /\ SessionIdle
  /\ ApiIdle
  /\ opts \in [num_threads : 1..MaxThreads, num_batches : 0..MaxBatches,
               num_jsons : 0..MaxJsons, batching : BOOLEAN, times : {1},
               seed : BaseSeeds]
  /\ s_pc = "idle" /\ s_status = "none" /\ repeats = 0
  /\ num_messages = 0 /\ total_messages = 0 /\ shutdown = FALSE
  /\ batch = NoBatch
  /\ metrics = [num_messages |-> 0, num_bytes |-> 0, producer |-> NoMetrics]
  /\ production_queue = <<>>
  /\ peer_alive = FALSE
  /\ w_pc = [t \in Threads |-> "none"]
  /\ w_args = [t \in Threads |-> [num_batches |-> 0, num_items |-> 0]]
  /\ w_b = [t \in Threads |-> 0]
  /\ w_batch = [t \in Threads |-> NoBatch]
  /\ w_metrics = [t \in Threads |-> NoMetrics]
  /\ joinable = [t \in Threads |-> FALSE]
  /\ rep_sent = 0 /\ peer_loss_seen = FALSE /\ send_failed = FALSE
  /\ sock_bytes = 0 /\ deq_bytes = 0
  /\ p_pc = "made" /\ metrics_ = NoMetrics /\ num_dequeued = 0
  /\ enqueued = EmptyBag
  /\ late_batches = [t \in Threads |-> 0]

\* producer->Start(&shutdown)
ProducerStart ==
  /\ p_pc = "made"
  /\ Start
  /\ p_pc' = "started"
  /\ UNCHANGED <<apiVars, scanVars, sessionVars, serverVars, poolHist, metrics_,
                 num_dequeued>>

\* The owner asserts the shutdown signal.
ShutdownStore ==
  /\ p_pc = "started"
  /\ ~shutdown
  /\ shutdown' = TRUE
  /\ UNCHANGED <<apiVars, scanVars, sessionVars, opts, s_pc, s_status, repeats,
                 num_messages, total_messages, batch, metrics,
                 production_queue, peer_alive, workerVars, poolHist,
                 producerVars>>

\* The owner takes a batch from the queue: queue.try_dequeue(test) succeeds.
QueueDequeue ==
  /\ p_pc \in {"started", "finished"}
  /\ production_queue # <<>>
  /\ batch' = Head(production_queue)
  /\ production_queue' = Tail(production_queue)
  /\ num_dequeued' = num_dequeued + 1
  /\ UNCHANGED <<apiVars, scanVars, sessionVars, opts, s_pc, s_status, repeats,
                 num_messages, total_messages, shutdown, metrics, peer_alive,
                 workerVars, poolHist, p_pc, metrics_, enqueued, late_batches>>

\* Producer::Finish: every thread is joined, which waits for its end, and
\* the metrics of the threads are added to metrics_.
ProducerFinish ==
  /\ p_pc = "started"
  /\ \A t \in Spawned(opts) : w_pc[t] = "done"
  /\ joinable' = [t \in Threads |-> FALSE]
  /\ metrics_' = AddMetrics(metrics_, ThreadTotals)
  /\ p_pc' = "finished"
  /\ UNCHANGED <<apiVars, scanVars, sessionVars, serverVars, w_pc, w_args, w_b,
                 w_batch, w_metrics, poolHist, num_dequeued, enqueued,
                 late_batches>>

NextProducer ==
  \/ ProducerStart
  \/ ShutdownStore
  \/ QueueDequeue
  \/ ProducerFinish
  \/ \E t \in Threads : WorkerStep(t)

SpecProducer == InitProducer /\ [][NextProducer]_vars

\* Every thread that can take a step eventually does, and so does the owner
\* once it can return from Finish.  The owner need never take a batch.
FairSpecProducer ==
  /\ SpecProducer
  /\ WF_vars(ProducerStart)
  /\ WF_vars(ProducerFinish)
  /\ \A t \in Threads : WF_vars(WorkerStep(t))


(***************************************************************************)
(* Properties of the scan.                                                 *)
(***************************************************************************)
\* The offsets of the separators of d.
SepOffsets(d) == {k \in 0..(Len(d) - 1) : d[k + 1] = NL}

\* The number of non-empty records of d that are followed by a separator.
RecordsIn(d) == Cardinality({k \in SepOffsets(d) : k >= 1 /\ d[k] # NL})

\* The number of bytes after the last separator of d.
TailLen(d) ==
  IF SepOffsets(d) = {} THEN Len(d)
  ELSE Len(d) - 1 - (CHOOSE k \in SepOffsets(d) : \A j \in SepOffsets(d) : j <= k)

\* d is k >= 0 non-empty records, each followed by one separator, and then
\* possibly a tail without separator.
IsRecordSlice(d) == \A k \in SepOffsets(d) : k >= 1 /\ d[k] # NL

\* Scan has returned num_jsons = n and tail_bytes = t and given the buffer
\* the n sequence numbers from scan_seq on.
ScanReturned(n, t) ==
  /\ scan_pc = "done"
  /\ scan_result = <<n, t>>
  /\ scan_range.first = scan_seq
  /\ scan_range.last = USub(UAdd(scan_seq, n), 1)

\* C1: Scan of k non-empty records (of any length >= 1), each followed by a
\* separator, and an optional tail P returns (k, |P|) and gives the buffer
\* the sequence numbers seq .. seq+k-1.
C1_ScanRoundTrip ==
  IsRecordSlice(scan_data)
    ~> ScanReturned(RecordsIn(scan_data), TailLen(scan_data))

\* C2: additional adjacent separators do not change what Scan reports: it
\* returns the number of non-empty records, an empty record does not advance
\* the sequence number, and a slice that ends in a separator has no tail.
C2_EmptyRecordsIgnored ==
  <>( /\ scan_pc = "done"
      /\ scan_result[1] = RecordsIn(scan_data)
      /\ scan_range = ScanRange(scan_seq, RecordsIn(scan_data))
      /\ (Len(scan_data) - 1 \in SepOffsets(scan_data) => scan_result[2] = 0) )

\* What does hold: a slice without a record of exactly one byte is scanned
\* as C1 and C2 say.
HasOneByteRecord(d) ==
  \E k \in SepOffsets(d) : k >= 1 /\ d[k] # NL /\ (k = 1 \/ d[k - 1] = NL)

ScanRoundTripLongRecords ==
  ~HasOneByteRecord(scan_data)
    ~> ScanReturned(RecordsIn(scan_data), TailLen(scan_data))


(***************************************************************************)
(* Properties of a session of the buffering client.                        *)
(***************************************************************************)
\* ReceiveJSONs has returned OK after reading every byte of the stream.
SessionComplete == c_pc = "returned" /\ c_status = "OK" /\ wire = <<>>

\* What one read of the whole stream into one buffer yields.
WholeScan == Scan(stream, Len(stream))

\* C3: however a stream that fits one buffer is split into reads, the session
\* ends with the jsons_received() and the first and last sequence numbers of
\* the session that reads it at once; it hangs in Scan only if that one does.
C3_SpillIdempotence ==
  Len(stream) <= Capacity =>
    /\ c_pc = "scan" => WholeScan.hang
    /\ SessionComplete =>
         /\ ~WholeScan.hang
         /\ jsons_received_ = WholeScan.num_jsons
         /\ seq = UAdd(seq0, WholeScan.num_jsons)
         /\ (published = <<>>) <=> (SepOffsets(stream) = {})
         /\ published # <<>> =>
              /\ published[1].range.first = seq0
              /\ published[Len(published)].range.last
                   = ScanRange(seq0, WholeScan.num_jsons).last

\* A stream with a record read in two reads, the first ending inside the
\* record or right before its separator.
C3_Witness ==
  /\ SessionComplete
  /\ Len(stream) <= Capacity
  /\ num_reads = 2
  /\ jsons_received_ = 1
  /\ Len(published) = 1
  /\ published[1].size = Len(stream)

\* C4: each buffer published with size > 0 starts at the sequence number
\* after the last one of the buffer published before it, and the first one
\* starts at ClientOptions::seq.
C4_SequenceMonotonicity ==
  \A j \in 1..Len(published) :
    published[j].range.first =
      IF j = 1 THEN seq0 ELSE UAdd(published[j - 1].range.last, 1)

\* Two buffers were published, the first of them holding a record.
C4_Witness ==
  /\ Len(published) = 2
  /\ published[1].range.last = published[1].range.first

C8_NoMutexHeldOnReturn ==
  c_pc = "returned" => \A i \in DOMAIN mutex : mutex[i] # "client"

\* C9: when ReceiveJSONs has returned, the spill region has been freed
\* exactly once.
C9_SpillReleasedOnce ==
  c_pc = "returned" => ~spill_live /\ spill_frees = 1


(***************************************************************************)
(* Properties of the producer pool and the server.                         *)
(***************************************************************************)
\* Producer::Start has spawned the threads of the current repetition.
PoolStarted == \E t \in Threads : w_pc[t] # "none"

\* The share of thread t when n units are split over the threads: n / T,
\* and n mod T more for thread 0.
FairShare(n, t) ==
  (n \div opts.num_threads) + (IF t = 0 THEN n % opts.num_threads ELSE 0)

\* C6: Start gives each thread B/T batches and thread 0 the B mod T left
\* over, so that the threads' batches sum to B; without batching the same
\* holds of the J records.
C6_WorkSplitExact ==
  PoolStarted =>
    IF opts.batching
    THEN /\ \A t \in Spawned(opts) :
              w_args[t].num_batches = FairShare(opts.num_batches, t)
         /\ SumOf([t \in Threads |-> IF t \in Spawned(opts)
                                      THEN w_args[t].num_batches ELSE 0], Threads)
              = opts.num_batches
    ELSE /\ \A t \in Spawned(opts) :
              w_args[t].num_items = FairShare(opts.num_jsons, t)
         /\ SumOf([t \in Threads |-> IF t \in Spawned(opts)
                                      THEN w_args[t].num_items ELSE 0], Threads)
              = opts.num_jsons

\* C7: with T, B, J >= 1 and a healthy peer every repetition ends, having
\* written B x J records, and SendJSONs returns OK with
\* num_messages = times x B x J.
C7_SendTerminates ==
  (opts.num_batches >= 1 /\ opts.num_jsons >= 1 /\ (opts.batching \/ opts.num_batches = 1))
    => /\ [](s_pc = "finish" => rep_sent = opts.num_batches * opts.num_jsons)
       /\ <>( \/ ~peer_alive
              \/ /\ s_pc = "returned"
                 /\ s_status = "OK"
                 /\ metrics.num_messages
                      = opts.times * opts.num_batches * opts.num_jsons )

\* C10: once the server has seen the peer gone while it waited on the empty
\* queue, the shutdown flag is set and SendJSONs has returned ServerError.
C10_PeerLossReturnsError ==
  peer_loss_seen =>
    /\ shutdown
    /\ s_pc = "returned"
    /\ s_status = "ServerError"

\* C11: whenever SendJSONs has executed a return of ServerError after the
\* pool was started, be it for a lost peer or for a failed send, the shutdown
\* flag the workers look at is set.
C11_ShutdownOnEveryError ==
  (peer_loss_seen \/ send_failed) => shutdown

\* C12: a send is counted in num_messages only if it wrote all bytes of the
\* batch: a step of the send loop that goes on to the next batch has put
\* batch.data_len bytes on the socket.
C12_NoPartialWriteCounted ==
  [][(s_pc = "send" /\ s_pc' = "outer")
       => sock_bytes' = sock_bytes + batch.data_len]_vars

(***************************************************************************)
(* Properties of the producer pool on its own.                             *)
(***************************************************************************)
\* All threads the pool has spawned have ended.
AllWorkersDone == \A t \in Spawned(opts) : w_pc[t] = "done"

\* The number of batches Start has assigned to the threads.
AssignedBatches == SumOf([t \in Threads |-> w_args[t].num_batches], Threads)

\* C13: once the shutdown flag is set, every thread of a started pool ends
\* and Finish returns, whatever the queue holds and whether or not anybody
\* takes batches from it.
C13_NoDeadlockOnBackpressure ==
  (p_pc = "started" /\ shutdown) ~> (AllWorkersDone /\ p_pc = "finished")

\* The flag was set, the queue is full, nothing was ever taken from it, a
\* thread has given up a batch it had generated before the flag was set and
\* that the queue did not accept, and Finish has returned.
C13_Witness ==
  /\ shutdown /\ p_pc = "finished" /\ AllWorkersDone
  /\ Len(production_queue) = QueueCap
  /\ num_dequeued = 0
  /\ ThreadTotals.num_batches > QueueCap
  /\ \A t \in Threads : late_batches[t] = 0

\* C14: after the shutdown flag is set a thread generates at most one more
\* batch, the one it is assembling.
C14_WorkerExitsEarly ==
  \A t \in Threads : late_batches[t] <= 1

\* The batch b of thread t in a run with options o, by the options alone:
\* the draws b * n .. b * n + n - 1 of the generator seeded with o.seed + t,
\* n being the number of documents of a batch of that thread.
ExpectedBatch(o, t, b) ==
  [gen       |-> <<o.seed + t, b * ThreadJsons(o, t)>>,
   data_len  |-> ThreadJsons(o, t) * (JsonBytes + 1),
   num_jsons |-> ThreadJsons(o, t)]

\* The pairs of a thread and the index of one of its batches.
ExpectedPairs(o) ==
  {p \in Spawned(o) \X (0..MaxBatches) : p[2] < ThreadBatches(o, p[1])}

\* The bag of the batches of a whole run with options o.
ExpectedBag(o) ==
  LET C == {ExpectedBatch(o, p[1], p[2]) : p \in ExpectedPairs(o)}
  IN  [c \in C |->
         Cardinality({p \in ExpectedPairs(o) : ExpectedBatch(o, p[1], p[2]) = c})]

\* C17: when all threads have ended and shutdown was never set, the bag of
\* the batches the queue has accepted is a function of the options alone,
\* whatever the interleaving of the threads and of the taker was.
C17_ProducerDeterminism ==
  (p_pc \in {"started", "finished"} /\ AllWorkersDone /\ ~shutdown)
    => /\ enqueued \sqsubseteq ExpectedBag(opts)
       /\ ExpectedBag(opts) \sqsubseteq enqueued

\* Two threads have each had batches accepted, the second of them with a
\* seed other than that of the options, and the run is complete.
C17_Witness ==
  /\ p_pc = "finished" /\ AllWorkersDone /\ ~shutdown
  /\ opts.num_threads = 2
  /\ \A t \in Spawned(opts) : w_metrics[t].num_batches >= 1
  /\ \E c \in BagToSet(enqueued) : c.gen[1] = opts.seed + 1 /\ c.num_jsons >= 1
  /\ BagCardinality(enqueued) >= 2

\* The sum of the field num_jsons, and of the byte lengths, over a bag of
\* batches.
BagJsons(B) == SumOf([c \in BagToSet(B) |-> B[c] * c.num_jsons], BagToSet(B))
BagChars(B) == SumOf([c \in BagToSet(B) |-> B[c] * c.data_len], BagToSet(B))

Mutates(i) ==
  \/ buf_data'[i] # buf_data[i]
  \/ buf_size'[i] # buf_size[i]
  \/ buf_range'[i] # buf_range[i]

\* C15: a buffer is written only by the client while it holds the mutex of
\* the buffer and has found the buffer empty, or by the consumer of the
\* buffer while it holds the mutex, and the consumer only resets it: the
\* bytes of a buffer with size > 0 stay as they are until it is reset.
C15_BufferOwnership ==
  [][\A i \in DOMAIN buf_cap :
       /\ Mutates(i) =>
            \/ /\ c_pc = "recv" /\ lock_idx = i
               /\ mutex[i] = "client"
               /\ buf_size[i] = 0
            \/ /\ cons_pc[i] = "hold"
               /\ mutex[i] = "consumer"
               /\ buf_size'[i] = 0
               /\ buf_data'[i] = buf_data[i]
       /\ buf_size[i] > 0 =>
            /\ buf_data'[i] = buf_data[i]
            /\ buf_size'[i] \in {buf_size[i], 0}]_vars

\* The single buffer of a client was published, reset by its consumer and
\* published again with other bytes at its front.
C15_Witness ==
  /\ DOMAIN buf_cap = {0}
  /\ Len(published) = 2
  /\ buf_size[0] > 0
  /\ cons_pc[0] = "hold"
  /\ published[1].size # published[2].size

\* No buffer can be had: each one holds data or is locked by its consumer.
AllBuffersBusy ==
  \A i \in DOMAIN buf_cap : buf_size[i] > 0 \/ mutex[i] = "consumer"

\* C16: as long as no buffer can be had, no step reads from the socket or
\* writes bytes into a buffer, and a try that ends without a buffer is
\* followed by the sleep, from which the loop starts over.
C16_BackpressureSafety ==
  [][/\ AllBuffersBusy =>
          /\ wire' = wire
          /\ bytes_received_' = bytes_received_
          /\ buf_data' = buf_data
     /\ (c_pc = "try" /\ c_pc' \notin {"try", "recv"}) => c_pc' = "sleep"
     /\ (c_pc = "sleep" /\ c_pc' # "sleep") => c_pc' = "loop"]_vars

\* A client with one buffer, which its consumer holds locked and has not
\* reset, sleeps after a failed try while bytes wait on the socket.
C16_Witness ==
  /\ DOMAIN buf_cap = {0}
  /\ buf_size[0] > 0
  /\ mutex[0] = "consumer"
  /\ c_pc = "sleep"
  /\ wire # <<>>
  /\ sock_valid

\* The stream is made of non-empty records, each followed by a separator.
StreamOfRecords ==
  /\ stream # <<>>
  /\ stream[Len(stream)] = NL
  /\ stream[1] # NL
  /\ \A k \in 1..(Len(stream) - 1) : ~(stream[k] = NL /\ stream[k + 1] = NL)

\* C19: when the peer has sent n non-empty records, each followed by a
\* separator, and ReceiveJSONs returns OK on a connection the client has not
\* closed itself, every byte was read and jsons_received() is n.
C19_EndToEndCount ==
  (StreamOfRecords /\ c_pc = "returned" /\ c_status = "OK" /\ must_be_closed)
    => /\ wire = <<>>
       /\ jsons_received_ = RecordsIn(stream) % WordMod

\* C18: at every moment the bytes written to the socket in a repetition are
\* the bytes of the batches the server has dequeued and sent, batch after
\* batch, none of them cut short.
C18_WireIsDequeueOrder ==
  sock_bytes = deq_bytes


(***************************************************************************)
(* The assembly of one batch by ProductionThread: num_items documents are  *)
(* written into the string buffer, each followed by the whitespace         *)
(* character when the option asks for it, and the buffer becomes the data  *)
(* of a JSONBatch.  One document per step.                                 *)
(***************************************************************************)
\* The bytes of f repetitions of the sequence part.
RECURSIVE Repeat(_, _)
Repeat(part, f) == IF f = 0 THEN <<>> ELSE part \o Repeat(part, f - 1)

\* The bytes a writer emits for one document with the given number of
\* top-level fields: the compact writer emits no separator byte, the pretty
\* writer puts every field and the closing brace on a line of its own.
WriteJSON(pretty, fields) ==
  IF pretty
    THEN <<120>> \o Repeat(<<NL, 120>>, fields)
               \o (IF fields > 0 THEN <<NL>> ELSE <<>>) \o <<120>>
    ELSE [k \in 1..JsonBytes |-> 120]

BatchOptions ==
  [whitespace : BOOLEAN, whitespace_char : Bytes, pretty : BOOLEAN,
   fields : 0..MaxFields, num_items : 0..MaxJsons]

InitBatch ==
  /\ ScanIdle
  /\ SessionIdle
  /\ PoolIdle
  /\ BufferIdle
  /\ LifeIdle
  /\ TrackerIdle
  /\ QueueingIdle
  /\ FileIdle
  /\ pt_opt \in BatchOptions
  /\ pt_pc = "items"
  /\ pt_m = 0
  /\ pt_buffer = <<>>
  /\ pt_batch = NoJSONBatch

\* One pass of the loop over m: the document, then the whitespace character.
PtItem ==
  /\ pt_pc = "items"
  /\ pt_m < pt_opt.num_items
  /\ pt_buffer' = pt_buffer \o WriteJSON(pt_opt.pretty, pt_opt.fields)
                     \o (IF pt_opt.whitespace THEN <<pt_opt.whitespace_char>>
                                              ELSE <<>>)
  /\ pt_m' = pt_m + 1
  /\ UNCHANGED <<pt_opt, pt_pc, pt_batch>>
  /\ UNCHANGED <<scanVars, sessionVars, poolVars, fileVars, bufferVars, lifeVars, trackerVars, queueingVars>>

\* The loop over m has ended: JSONBatch{buffer.GetString(), num_items}.
PtMakeBatch ==
  /\ pt_pc = "items"
  /\ ~(pt_m < pt_opt.num_items)
  /\ pt_batch' = [data |-> pt_buffer, num_jsons |-> pt_opt.num_items]
  /\ pt_pc' = "enqueue"
  /\ UNCHANGED <<pt_opt, pt_m, pt_buffer>>
  /\ UNCHANGED <<scanVars, sessionVars, poolVars, fileVars, bufferVars, lifeVars, trackerVars, queueingVars>>

\* The queue accepts the batch.
PtEnqueue ==
  /\ pt_pc = "enqueue"
  /\ pt_pc' = "queued"
  /\ UNCHANGED <<pt_opt, pt_m, pt_buffer, pt_batch>>
  /\ UNCHANGED <<scanVars, sessionVars, poolVars, fileVars, bufferVars, lifeVars, trackerVars, queueingVars>>

NextBatch == PtItem \/ PtMakeBatch \/ PtEnqueue

SpecBatch == InitBatch /\ [][NextBatch]_vars

\* C21: every batch handed to the queue has num_jsons equal to the number
\* of separator bytes in its data, whatever the producer options are.
C21_BatchCountsSeparators ==
  pt_pc = "queued" => pt_batch.num_jsons = Cardinality(SepOffsets(pt_batch.data))

\* With the options the server runs with by default (compact documents,
\* each followed by a newline) the count and the separators agree.
C21_DefaultOptionsAgree ==
  (pt_pc = "queued" /\ pt_opt.whitespace /\ pt_opt.whitespace_char = NL
     /\ ~pt_opt.pretty)
    => pt_batch.num_jsons = Cardinality(SepOffsets(pt_batch.data))


(***************************************************************************)
(* A JSONBuffer used through its interface: JSONBuffer::Create or the      *)
(* default constructor, then SetSize, SetRange, SetRecvTime and Reset in   *)
(* any order.                                                              *)
(***************************************************************************)
\* The time points of the model.
TimePoints == 0..MaxClock

\* The sequence ranges handed to SetRange.
SeqRanges == [first : 0..1, last : 0..1]

InitBuffer ==
  /\ ScanIdle
  /\ SessionIdle
  /\ PoolIdle
  /\ BatchIdle
  /\ LifeIdle
  /\ TrackerIdle
  /\ QueueingIdle
  /\ FileIdle
  /\ \E capacity \in 0..Capacity : jb = [NoJSONBuffer EXCEPT !.capacity = capacity]
  /\ jb_call = NoCall

JbSetSize ==
  \E size \in 0..(Capacity + 1) :
    /\ IF SetSizeOK(size, jb.capacity)
         THEN /\ jb' = [jb EXCEPT !.size = size]
              /\ jb_call' = [op |-> "SetSize", arg |-> size, status |-> "OK"]
         ELSE /\ jb' = jb
              /\ jb_call' = [op |-> "SetSize", arg |-> size,
                             status |-> "ClientError"]
    /\ UNCHANGED <<scanVars, sessionVars, poolVars, fileVars, batchVars, lifeVars, trackerVars, queueingVars>>

JbSetRange ==
  \E range \in SeqRanges :
    /\ jb' = [jb EXCEPT !.seq_range = range]
    /\ jb_call' = [op |-> "SetRange", arg |-> 0, status |-> "none"]
    /\ UNCHANGED <<scanVars, sessionVars, poolVars, fileVars, batchVars, lifeVars, trackerVars, queueingVars>>

JbSetRecvTime ==
  \E time \in TimePoints :
    /\ jb' = [jb EXCEPT !.recv_time = time]
    /\ jb_call' = [op |-> "SetRecvTime", arg |-> time, status |-> "none"]
    /\ UNCHANGED <<scanVars, sessionVars, poolVars, fileVars, batchVars, lifeVars, trackerVars, queueingVars>>

JbReset ==
  /\ jb' = [jb EXCEPT !.size = 0, !.seq_range = [first |-> 0, last |-> 0]]
  /\ jb_call' = [op |-> "Reset", arg |-> 0, status |-> "none"]
  /\ UNCHANGED <<scanVars, sessionVars, poolVars, fileVars, batchVars, lifeVars, trackerVars, queueingVars>>

NextBuffer == JbSetSize \/ JbSetRange \/ JbSetRecvTime \/ JbReset

SpecBuffer == InitBuffer /\ [][NextBuffer]_vars

\* C22: a call SetSize(s) returns OK and makes s the size iff s is at most
\* the capacity; for a larger s it returns ClientError and changes no field.
C22_SetSizeBound ==
  [][jb_call'.op = "SetSize" =>
       IF jb_call'.arg <= jb.capacity
         THEN /\ jb_call'.status = "OK"
              /\ jb' = [jb EXCEPT !.size = jb_call'.arg]
         ELSE /\ jb_call'.status = "ClientError"
              /\ jb' = jb]_vars

\* A buffer that was filled to its capacity has refused a larger size, with
\* a range and a receive time that are not the default ones.
C22_Witness ==
  /\ jb_call.op = "SetSize" /\ jb_call.status = "ClientError"
  /\ jb.capacity >= 1 /\ jb.size = jb.capacity
  /\ jb.seq_range.last = 1 /\ jb.recv_time >= 1


(***************************************************************************)
(* Creating and closing a client (BufferingClient or QueueingClient) and   *)
(* a Server.  Each object is created at most once and closed any number    *)
(* of times up to MaxCloses.                                               *)
(***************************************************************************)
\* The value of must_be_closed after a Close that closed the socket.
FlagKeptAfterClose == TRUE
FlagAfterClose == FALSE

\* Whether BufferingClient::Create refuses the two vectors.
CreateRefuses(buffers_size, mutexes_size) == mutexes_size # buffers_size

\* Whether Socket::close() of the socket library throws: the library is not
\* part of the source, so either outcome is taken.
CloseThrows == BOOLEAN

InitLifecycle ==
  /\ ScanIdle
  /\ SessionIdle
  /\ PoolIdle
  /\ BatchIdle
  /\ BufferIdle
  /\ TrackerIdle
  /\ QueueingIdle
  /\ FileIdle
  /\ \/ /\ cl_kind = "buffering"
        /\ cl_args \in [num_buffers : 0..NumBuffers, num_mutexes : 0..NumBuffers]
     \/ /\ cl_kind = "queueing"
        /\ cl_args = [num_buffers |-> 0, num_mutexes |-> 0]
  /\ cl = NoClient /\ cl_hist = NoClientHist
  /\ sv = NoServer /\ sv_hist = NoServerHist

\* The connection attempt shared by both Create functions.
Connect(success) ==
  /\ cl' = [created |-> IF success THEN "OK" ELSE "ClientError",
            must_be_closed |-> success,
            sock |-> IF success THEN "open" ELSE "unconnected"]
  /\ cl_hist' = [cl_hist EXCEPT !.connects = @ + 1]

\* BufferingClient::Create(options, buffers, mutexes, out).
BufferingCreate ==
  /\ cl_kind = "buffering"
  /\ cl.created = "no"
  /\ IF CreateRefuses(cl_args.num_buffers, cl_args.num_mutexes)
       THEN /\ cl' = [cl EXCEPT !.created = "ClientError"]
            /\ UNCHANGED cl_hist
       ELSE \E success \in BOOLEAN : Connect(success)
  /\ UNCHANGED <<cl_kind, cl_args, sv, sv_hist>>
  /\ UNCHANGED <<scanVars, sessionVars, poolVars, fileVars, batchVars, bufferVars, trackerVars, queueingVars>>

\* QueueingClient::Create(options, queue, out, buffer_size).
QueueingCreate ==
  /\ cl_kind = "queueing"
  /\ cl.created = "no"
  /\ \E allocated \in BOOLEAN :
       IF ~allocated
         THEN /\ cl' = [cl EXCEPT !.created = "ClientError"]
              /\ UNCHANGED cl_hist
         ELSE \E success \in BOOLEAN : Connect(success)
  /\ UNCHANGED <<cl_kind, cl_args, sv, sv_hist>>
  /\ UNCHANGED <<scanVars, sessionVars, poolVars, fileVars, batchVars, bufferVars, trackerVars, queueingVars>>

\* BufferingClient::Close() and QueueingClient::Close(), which have the
\* same body.
ClientClose ==
  /\ cl_hist.close_calls < MaxCloses
  /\ IF cl.must_be_closed
       THEN /\ cl' = [cl EXCEPT !.sock = "closed",
                                !.must_be_closed = FlagAfterClose]
            /\ cl_hist' = [cl_hist EXCEPT
                             !.close_calls = @ + 1,
                             !.sock_closes = @ + 1,
                             !.closes_since_ok =
                                IF cl.created = "OK" THEN @ + 1 ELSE @,
                             !.ret = "OK"]
       ELSE /\ cl' = cl
            /\ cl_hist' = [cl_hist EXCEPT
                             !.close_calls = @ + 1,
                             !.closes_since_ok =
                                IF cl.created = "OK" THEN @ + 1 ELSE @,
                             !.ret = "ClientError"]
  /\ UNCHANGED <<cl_kind, cl_args, sv, sv_hist>>
  /\ UNCHANGED <<scanVars, sessionVars, poolVars, fileVars, batchVars, bufferVars, trackerVars, queueingVars>>

\* Server::Create(options, out): bind() may throw.
ServerCreate ==
  /\ sv.created = "no"
  /\ \E bound \in BOOLEAN :
       sv' = IF bound THEN [created |-> "OK", sock |-> "listening"]
                      ELSE [created |-> "ServerError", sock |-> "unbound"]
  /\ UNCHANGED <<cl_kind, cl_args, cl, cl_hist, sv_hist>>
  /\ UNCHANGED <<scanVars, sessionVars, poolVars, fileVars, batchVars, bufferVars, trackerVars, queueingVars>>

\* Server::Close() on a server that Create has returned.
ServerClose ==
  /\ sv.created # "no"
  /\ sv_hist.close_calls < MaxCloses
  /\ \E throws \in CloseThrows :
       /\ sv' = IF throws THEN sv ELSE [sv EXCEPT !.sock = "closed"]
       /\ sv_hist' = [close_calls |-> sv_hist.close_calls + 1,
                      threw |-> throws,
                      ret |-> IF throws THEN "ServerError" ELSE "OK"]
  /\ UNCHANGED <<cl_kind, cl_args, cl, cl_hist>>
  /\ UNCHANGED <<scanVars, sessionVars, poolVars, fileVars, batchVars, bufferVars, trackerVars, queueingVars>>

NextLifecycle ==
  \/ BufferingCreate
  \/ QueueingCreate
  \/ ClientClose
  \/ ServerCreate
  \/ ServerClose

SpecLifecycle == InitLifecycle /\ [][NextLifecycle]_vars

\* C23: the first Close after a successful Create returns OK and closes the
\* socket; every other Close (a later one, or one on a client that never
\* connected) returns ClientError and leaves the socket alone.
C23_CloseNotIdempotent ==
  [][cl_hist'.close_calls = cl_hist.close_calls + 1 =>
       IF cl.created = "OK" /\ cl_hist.closes_since_ok = 0
         THEN /\ cl_hist'.ret = "OK"
              /\ cl.sock = "open" /\ cl'.sock = "closed"
              /\ cl_hist'.sock_closes = cl_hist.sock_closes + 1
         ELSE /\ cl_hist'.ret = "ClientError"
              /\ cl'.sock = cl.sock
              /\ cl_hist'.sock_closes = cl_hist.sock_closes]_vars

\* A queueing client was created, closed with OK, and closed again with
\* ClientError; its socket was closed once.
C23_Witness ==
  /\ cl_kind = "queueing" /\ cl.created = "OK"
  /\ cl_hist.close_calls >= 2 /\ cl_hist.sock_closes = 1
  /\ cl_hist.ret = "ClientError" /\ cl.sock = "closed"

\* The same for a buffering client, and for a client whose connection
\* failed: its Close returns ClientError and its socket is never closed.
C23_NeverConnected ==
  (cl.created # "OK" /\ cl_hist.close_calls >= 1)
    => cl_hist.ret = "ClientError" /\ cl_hist.sock_closes = 0

\* C24: on a created server the first Close returns OK (when closing the
\* socket does not fail) and every later Close returns ServerError.
C24_ServerClosedOnce ==
  sv.created = "OK" =>
    /\ (sv_hist.close_calls = 1 /\ ~sv_hist.threw) => sv_hist.ret = "OK"
    /\ sv_hist.close_calls >= 2 => sv_hist.ret = "ServerError"

\* The first half of C24 alone.
C24_FirstCloseOK ==
  (sv.created = "OK" /\ sv_hist.close_calls = 1 /\ ~sv_hist.threw)
    => sv_hist.ret = "OK" /\ sv.sock = "closed"

\* C25: BufferingClient::Create returns ClientError, attempts no connection
\* and does not set must_be_closed when the two vectors differ in length or
\* one of them is empty.
C25_CreateNeedsPairs ==
  (cl_kind = "buffering" /\ cl.created # "no"
     /\ (\/ cl_args.num_buffers # cl_args.num_mutexes
         \/ cl_args.num_buffers = 0
         \/ cl_args.num_mutexes = 0))
    => /\ cl.created = "ClientError"
       /\ cl_hist.connects = 0
       /\ ~cl.must_be_closed

\* The part of C25 about vectors of different lengths.
C25_MismatchRefused ==
  (cl_kind = "buffering" /\ cl.created # "no"
     /\ cl_args.num_buffers # cl_args.num_mutexes)
    => /\ cl.created = "ClientError"
       /\ cl_hist.connects = 0
       /\ ~cl.must_be_closed


(***************************************************************************)
(* A LatencyTracker used through Put and Get.  Every Put stores the        *)
(* reading of a clock that has advanced since the Put before it.           *)
(***************************************************************************)
\* Whether Put stores the time point of sequence number seq.
StoresAlways(sn, interval) == TRUE
Stores(sn, interval) == sn % interval = 0

\* The sample a stored sequence number goes to.
SampleOf(sn, interval, samples) == (sn \div interval) % samples

\* The offset of (index, stage) in points_.
Offset(index, stage, stages) == index * stages + stage

\* Whether Get refuses (index, stage).
GetThrows(index, stage, samples, stages) == stage >= stages \/ index > samples

InitTracker ==
  /\ ScanIdle
  /\ SessionIdle
  /\ PoolIdle
  /\ BatchIdle
  /\ BufferIdle
  /\ LifeIdle
  /\ QueueingIdle
  /\ FileIdle
  /\ \E samples \in 1..MaxSamples, stages \in 1..MaxStages,
        interval \in 1..MaxInterval : lt = NewTracker(samples, stages, interval)
  /\ TrackerUnused

\* Put(seq, stage, Timer::now()); the assert admits only stage < num_stages_.
TrackerPut ==
  /\ lt_now < MaxClock
  /\ \E sn \in 0..(WordMod - 1), stage \in 0..(lt.num_stages - 1) :
       LET value == lt_now + 1
           stored == Stores(sn, lt.sample_interval)
           at == Offset(SampleOf(sn, lt.sample_interval, lt.num_samples),
                        stage, lt.num_stages)
       IN /\ lt_now' = value
          /\ lt' = IF stored THEN [lt EXCEPT !.points[at] = value] ELSE lt
          /\ lt_call' = [op |-> "Put", a |-> sn, stage |-> stage,
                         value |-> value,
                         ret |-> IF stored THEN "true" ELSE "false",
                         oob |-> FALSE,
                         prev |-> IF stored THEN lt.points[at] ELSE 0]
  /\ UNCHANGED <<scanVars, sessionVars, poolVars, fileVars, batchVars, bufferVars, lifeVars, queueingVars>>

\* Get(index, stage): a read past the end of points_ yields any time point.
TrackerGet ==
  /\ \E index \in 0..(MaxSamples + 1), stage \in 0..MaxStages :
       LET at == Offset(index, stage, lt.num_stages)
       IN IF GetThrows(index, stage, lt.num_samples, lt.num_stages)
            THEN lt_call' = [op |-> "Get", a |-> index, stage |-> stage,
                             value |-> 0, ret |-> "OutOfRange", oob |-> FALSE,
                             prev |-> 0]
            ELSE IF at \in DOMAIN lt.points
              THEN lt_call' = [op |-> "Get", a |-> index, stage |-> stage,
                               value |-> lt.points[at], ret |-> "value",
                               oob |-> FALSE, prev |-> 0]
              ELSE \E any \in TimePoints :
                     lt_call' = [op |-> "Get", a |-> index, stage |-> stage,
                                 value |-> any, ret |-> "value", oob |-> TRUE,
                                 prev |-> 0]
  /\ UNCHANGED <<lt, lt_now>>
  /\ UNCHANGED <<scanVars, sessionVars, poolVars, fileVars, batchVars, bufferVars, lifeVars, queueingVars>>

NextTracker == TrackerPut \/ TrackerGet

SpecTracker == InitTracker /\ [][NextTracker]_vars

\* The time point held for (index, stage), for index and stage in range.
Held(tracker, index, stage) == tracker.points[index * tracker.num_stages + stage]

\* C26: Put(seq, stage, t) with stage < num_stages returns true and puts t
\* in slot ((seq / sample_interval) mod num_samples, stage), changing no
\* other slot, iff seq mod sample_interval = 0; otherwise it returns false
\* and changes no slot.
C26_PutStoresSample ==
  [][lt_call'.op = "Put" /\ lt_now' # lt_now =>
       LET sn == lt_call'.a
           sampled == sn % lt.sample_interval = 0
       IN /\ lt_call'.ret = (IF sampled THEN "true" ELSE "false")
          /\ \A index \in 0..(lt.num_samples - 1), stage \in 0..(lt.num_stages - 1) :
               Held(lt', index, stage) =
                 IF /\ sampled
                    /\ index = (sn \div lt.sample_interval) % lt.num_samples
                    /\ stage = lt_call'.stage
                   THEN lt_call'.value
                   ELSE Held(lt, index, stage)]_vars

\* C26, second part: a Get of a slot in range returns what is held there,
\* which is the time point of the latest Put that stored into the slot.
C26_GetReturnsLatest ==
  (lt_call.op = "Get" /\ lt_call.a < lt.num_samples /\ lt_call.stage < lt.num_stages)
    => /\ lt_call.ret = "value"
       /\ lt_call.value = Held(lt, lt_call.a, lt_call.stage)

\* A tracker of two samples with a sample interval of 2 has stored the time
\* point of sequence number 4 in sample 0 of its last stage, where it found
\* and replaced the time point of an older sample.
C26_Witness ==
  /\ lt.num_samples = 2 /\ lt.num_stages = 2 /\ lt.sample_interval = 2
  /\ lt_call.op = "Put" /\ lt_call.ret = "true"
  /\ lt_call.a = 4 /\ lt_call.stage = 1
  /\ lt_call.prev = 1 /\ lt_call.value = 2
  /\ Held(lt, 0, 1) = 2 /\ Held(lt, 1, 1) = 0

\* C27: Get(index, stage) fails with an out-of-range error when
\* stage >= num_stages or index >= num_samples, returns the time point held
\* otherwise, and never reads outside the array.
C27_GetChecksBounds ==
  lt_call.op = "Get" =>
    /\ ~lt_call.oob
    /\ IF lt_call.stage >= lt.num_stages \/ lt_call.a >= lt.num_samples
         THEN lt_call.ret = "OutOfRange"
         ELSE /\ lt_call.ret = "value"
              /\ lt_call.value = Held(lt, lt_call.a, lt_call.stage)

\* C27 without the index that equals num_samples.
C27_GetChecksOtherBounds ==
  (lt_call.op = "Get" /\ lt_call.a # lt.num_samples) =>
    /\ ~lt_call.oob
    /\ IF lt_call.stage >= lt.num_stages \/ lt_call.a >= lt.num_samples
         THEN lt_call.ret = "OutOfRange"
         ELSE /\ lt_call.ret = "value"
              /\ lt_call.value = Held(lt, lt_call.a, lt_call.stage)


\* C28: when ReceiveJSONs is given a tracker, every sequence number it has
\* assigned that is a sample has the time of a read in stage 0 of its slot.
\* The reads of a session happen at the time points 1, 2, ...; time point 0
\* is what a slot holds that was never stored into.
C28_TrackerHoldsRecvTime ==
  \A k \in 0..(jsons_received_ - 1) :
    LET sn == UAdd(seq0, k)
    IN sn % lt.sample_interval = 0 =>
         Held(lt, (sn \div lt.sample_interval) % lt.num_samples, 0) \in 1..num_reads


(***************************************************************************)
(* QueueingClient::ReceiveJSONs with a receive buffer of buffer_size bytes  *)
(* and without a latency tracker, one pass of its loop per step: a         *)
(* read of at most buffer_size bytes and EnqueueAllJSONsInBuffer on the    *)
(* bytes read.                                                             *)
(***************************************************************************)
\* json_buffer->clear()
ClearString(json_buffer) == <<>>

\* The do-while loop of EnqueueAllJSONsInBuffer over the bytes d read, from
\* json_start on: the string, the items enqueued, and the sequence number.
RECURSIVE EnqueueLoop(_, _, _, _, _)
EnqueueLoop(d, json_start, json_buffer, items, sn) ==
  LET n        == Len(d) - json_start
      json_end == Memchr(d, json_start, n)
  IN  IF json_end = nullptr
      THEN [json_buffer |-> json_buffer \o SubSeq(d, json_start + 1, Len(d)),
            items |-> items, seq |-> sn]
      ELSE LET str  == json_buffer \o SubSeq(d, json_start + 1, json_end)
               put  == Append(items, [seq |-> sn, string |-> str])
               next == UAdd(sn, 1)
           IN  IF Len(d) - (json_end + 1) > 0
               THEN EnqueueLoop(d, json_end + 1, ClearString(str), put, next)
               ELSE [json_buffer |-> ClearString(str), items |-> put, seq |-> next]

EnqueueAllJSONsInBuffer(json_buffer, d, sn) == EnqueueLoop(d, 0, json_buffer, <<>>, sn)

\* The larger of two numbers.
Max(a, b) == IF a >= b THEN a ELSE b

\* The bytes the memset at the end of EnqueueAllJSONsInBuffer writes, from
\* the start of a receive buffer of size bytes:
\* memset(recv_buffer, 0, ILLEX_DEFAULT_TCP_BUFSIZE).
Cleared(size) == TcpBufSize

InitQueueing ==
  /\ ScanIdle
  /\ SessionIdle
  /\ PoolIdle
  /\ FileIdle
  /\ BatchIdle
  /\ BufferIdle
  /\ LifeIdle
  /\ TrackerIdle
  /\ q_stream \in SlicesUpTo(MaxStream)
  /\ q_wire = q_stream
  /\ q_sock_valid = TRUE
  /\ q_pc = "loop"
  /\ q_status = "none"
  /\ json_string = <<>>
  /\ q_seq0 \in SeqSeeds
  /\ q_seq = q_seq0
  /\ queue = <<>>
  /\ received_ = 0
  /\ q_bytes_received_ = 0
  /\ buffer_size \in 1..TcpBufSize
  /\ q_written = 0

\* while (client->is_valid()); after the loop return OK.
QLoopCheck ==
  /\ q_pc = "loop"
  /\ IF q_sock_valid
       THEN /\ q_pc' = "recv"
            /\ UNCHANGED q_status
       ELSE /\ q_pc' = "returned"
            /\ q_status' = "OK"
  /\ UNCHANGED <<q_stream, q_wire, q_sock_valid, json_string, q_seq0, q_seq,
                 queue, received_, q_bytes_received_, buffer_size, q_written>>
  /\ UNCHANGED <<scanVars, sessionVars, poolVars, fileVars, batchVars, bufferVars, lifeVars,
                 trackerVars>>

\* The rest of a pass of the loop once recv has returned chunk and the
\* socket status.
QAfterRecv(chunk, sock_status) ==
  LET r == EnqueueAllJSONsInBuffer(json_string, chunk, q_seq)
  IN  /\ q_wire' = SubSeq(q_wire, Len(chunk) + 1, Len(q_wire))
      /\ q_bytes_received_' = UAdd(q_bytes_received_, Len(chunk))
      /\ json_string' = r.json_buffer
      /\ queue' = queue \o r.items
      /\ q_seq' = r.seq
      /\ received_' = UAdd(received_, Len(r.items))
      /\ CASE sock_status = "cleanly_disconnected" ->
                /\ q_status' = "OK"
                /\ q_pc' = "returned"
           [] sock_status = "valid" ->
                /\ q_pc' = "loop"
                /\ UNCHANGED q_status
           [] OTHER ->
                /\ q_status' = "ClientError"
                /\ q_pc' = "returned"
      /\ q_written' = Max(q_written, Max(Len(chunk), Cleared(buffer_size)))
      /\ UNCHANGED <<q_stream, q_sock_valid, q_seq0, buffer_size>>
      /\ UNCHANGED <<scanVars, sessionVars, poolVars, fileVars, batchVars, bufferVars,
                     lifeVars, trackerVars>>

\* recv returns between 1 and buffer_size bytes of the stream.
QRecvData ==
  /\ q_pc = "recv"
  /\ q_sock_valid
  /\ \E n \in 1..Len(q_wire) :
       /\ n <= buffer_size
       /\ QAfterRecv(SubSeq(q_wire, 1, n), "valid")

\* recv returns 0 bytes: the peer has sent everything and closed the
\* connection.
QRecvDisconnect ==
  /\ q_pc = "recv"
  /\ q_sock_valid
  /\ Len(q_wire) = 0
  /\ QAfterRecv(<<>>, "cleanly_disconnected")

\* recv fails: no bytes and the socket status errored.
QRecvError ==
  /\ q_pc = "recv"
  /\ QAfterRecv(<<>>, "errored")

\* An exception is thrown and caught at the end of the pass.
QRecvThrow ==
  /\ q_pc = "recv"
  /\ q_status' = "ClientError"
  /\ q_pc' = "returned"
  /\ UNCHANGED <<q_stream, q_wire, q_sock_valid, json_string, q_seq0, q_seq,
                 queue, received_, q_bytes_received_, buffer_size, q_written>>
  /\ UNCHANGED <<scanVars, sessionVars, poolVars, fileVars, batchVars, bufferVars, lifeVars,
                 trackerVars>>

\* QueueingClient::Close, called by the owner of the client.
QClose ==
  /\ q_pc # "idle"
  /\ q_sock_valid
  /\ q_sock_valid' = FALSE
  /\ UNCHANGED <<q_stream, q_wire, q_pc, q_status, json_string, q_seq0, q_seq,
                 queue, received_, q_bytes_received_, buffer_size, q_written>>
  /\ UNCHANGED <<scanVars, sessionVars, poolVars, fileVars, batchVars, bufferVars, lifeVars,
                 trackerVars>>

NextQueueing ==
  \/ QLoopCheck
  \/ QRecvData
  \/ QRecvDisconnect
  \/ QRecvError
  \/ QRecvThrow
  \/ QClose

SpecQueueing == InitQueueing /\ [][NextQueueing]_vars

\* The bytes of the stream the client has read.
Consumed == SubSeq(q_stream, 1, Len(q_stream) - Len(q_wire))

\* The pieces of d that end in a separator, without it, in their order.
RECURSIVE Segments(_)
Segments(d) ==
  IF SepOffsets(d) = {} THEN <<>>
  ELSE LET k == Min(SepOffsets(d))
       IN  <<SubSeq(d, 1, k)>> \o Segments(SubSeq(d, k + 2, Len(d)))

\* The complete records of d: its non-empty pieces that end in a separator.
IsRecord(r) == r # <<>>
CompleteRecords(d) == SelectSeq(Segments(d), IsRecord)

\* The queue holds exactly the records recs, numbered from options.seq on.
QueueHolds(recs) ==
  /\ Len(queue) = Len(recs)
  /\ \A i \in 1..Len(recs) :
       queue[i] = [seq |-> UAdd(q_seq0, i - 1), string |-> recs[i]]

\* C29: the queue holds one item per complete record of the bytes read, in
\* wire order, numbered from options.seq on, with the bytes of the record
\* without its separator, however the bytes were split over reads;
\* jsons_received() is the number of items enqueued; the bytes after the
\* last separator are in no item.
C29_OneItemPerRecord ==
  /\ QueueHolds(CompleteRecords(Consumed))
  /\ received_ = Len(queue) % WordMod

\* C29 for streams in which no record is empty.
C29_NonEmptyRecords ==
  IsRecordSlice(q_stream) =>
    /\ QueueHolds(CompleteRecords(Consumed))
    /\ received_ = Len(queue) % WordMod
    /\ json_string = SubSeq(Consumed, Len(Consumed) - TailLen(Consumed) + 1,
                            Len(Consumed))

\* What the client does for every stream: one item per separator.
C29_OneItemPerSeparator ==
  /\ QueueHolds(Segments(Consumed))
  /\ received_ = Len(queue) % WordMod

\* C30: an empty record (a separator that follows a separator or starts the
\* stream) enqueues no item and takes no sequence number, so that the
\* client reports the count and the final sequence number that the scan
\* rule of the buffering client gives for the same bytes.
C30_EmptyRecordsSkipped ==
  /\ \A i \in 1..Len(queue) : queue[i].string # <<>>
  /\ received_ = RecordsIn(Consumed) % WordMod
  /\ q_seq = UAdd(q_seq0, RecordsIn(Consumed))


(***************************************************************************)
(* The record count of a JSONBuffer.                                       *)
(***************************************************************************)
\* JSONBuffer::num_jsons(): seq_range.last - seq_range.first + 1.
NumJsons(range) == UAdd(USub(range.last, range.first), 1)

\* C31: a buffer that was just created, or just reset, has the range {0,0}
\* and reports num_jsons() = 0.
C31_EmptyBufferCountsZero ==
  jb_call.op \in {"none", "Reset"} =>
    /\ jb.seq_range = [first |-> 0, last |-> 0]
    /\ NumJsons(jb.seq_range) = 0

\* What the buffer reports instead: the range {0,0} counts as one record.
C31_EmptyBufferCountsOne ==
  jb_call.op \in {"none", "Reset"} =>
    /\ jb.seq_range = [first |-> 0, last |-> 0]
    /\ NumJsons(jb.seq_range) = 1


\* C32: a pass of the client's loop whose scan completed no record leaves the
\* range of every buffer as it was.
C32_RangeOnlyWithRecords ==
  [][(c_pc = "recv" /\ c_pc' \in {"loop", "returned"}
        /\ jsons_received_' = jsons_received_)
       => buf_range' = buf_range]_vars

\* A stronger reading of the same claim as a state predicate: no buffer holds
\* a range whose last is the number before its first.
C32_NoWrappedRange ==
  \A i \in DOMAIN buf_range : buf_range[i].last # USub(buf_range[i].first, 1)


(***************************************************************************)
(* RunFile (file.cpp): the producer pool is started, the batches are       *)
(* dequeued and written to the stream and/or the file until num_jsons      *)
(* reaches num_batches * num_jsons, and the pool is finished.  The local   *)
(* shutdown flag is never stored to.                                       *)
(***************************************************************************)
RECURSIVE RecordsWritten(_)
\* The number of records in a sequence of written batches.
RecordsWritten(batches) ==
  IF batches = <<>> THEN 0
  ELSE Head(batches).num_jsons + RecordsWritten(Tail(batches))

\* opt.production.num_batches * opt.production.num_jsons
FileTarget == opts.num_batches * opts.num_jsons

\* (*o) << batch.data, if requested.
ToStream(o, b) == IF o.verbose \/ ~o.has_path THEN <<b>> ELSE <<>>

\* ofs << batch.data, if there is a path.
ToFile(o, b) == IF o.has_path THEN <<b>> ELSE <<>>

InitFile ==
  /\ ScanIdle
  /\ SessionIdle
  /\ BatchIdle
  /\ BufferIdle
  /\ LifeIdle
  /\ TrackerIdle
  /\ QueueingIdle
  /\ opts \in [num_threads : 1..MaxThreads, num_batches : 0..MaxBatches,
               num_jsons : 0..MaxJsons, batching : BOOLEAN, times : {1},
               seed : BaseSeeds]
  /\ s_pc = "idle" /\ s_status = "none" /\ repeats = 0
  /\ num_messages = 0 /\ total_messages = 0 /\ shutdown = FALSE
  /\ batch = NoBatch
  /\ metrics = [num_messages |-> 0, num_bytes |-> 0, producer |-> NoMetrics]
  /\ production_queue = <<>>
  /\ peer_alive = FALSE
  /\ w_pc = [t \in Threads |-> "none"]
  /\ w_args = [t \in Threads |-> [num_batches |-> 0, num_items |-> 0]]
  /\ w_b = [t \in Threads |-> 0]
  /\ w_batch = [t \in Threads |-> NoBatch]
  /\ w_metrics = [t \in Threads |-> NoMetrics]
  /\ joinable = [t \in Threads |-> FALSE]
  /\ rep_sent = 0 /\ peer_loss_seen = FALSE /\ send_failed = FALSE
  /\ sock_bytes = 0 /\ deq_bytes = 0
  /\ p_pc = "made" /\ metrics_ = NoMetrics /\ num_dequeued = 0
  /\ enqueued = EmptyBag
  /\ late_batches = [t \in Threads |-> 0]
  /\ f_opt \in {o \in [verbose : BOOLEAN, has_path : BOOLEAN, can_open : BOOLEAN] :
                  ~o.has_path => ~o.can_open}
  /\ f_pc = "start" /\ f_status = "none"
  /\ f_num_jsons = 0
  /\ f_out = <<>> /\ f_ofs = <<>>

\* Producer::Make and producer->Start(&shutdown).
FileStart ==
  /\ f_pc = "start"
  /\ Start
  /\ p_pc' = "started"
  /\ f_pc' = "open"
  /\ UNCHANGED <<scanVars, sessionVars, serverVars, poolHist, metrics_,
                 num_dequeued, batchVars, bufferVars, lifeVars, trackerVars,
                 queueingVars, f_opt, f_status, f_num_jsons, f_out, f_ofs>>

\* The file is opened if there is a path.  A failed open returns IOError
\* with the threads of the pool still joinable: destroying them ends the
\* process.
FileOpen ==
  /\ f_pc = "open"
  /\ IF f_opt.has_path /\ ~f_opt.can_open
     THEN /\ f_status' = "IOError"
          /\ f_pc' = "terminated"
          /\ s_pc' = "terminated"
     ELSE /\ f_pc' = "loop"
          /\ UNCHANGED <<f_status, s_pc>>
  /\ UNCHANGED <<scanVars, sessionVars, opts, s_status, repeats, num_messages,
                 total_messages, shutdown, batch, metrics, production_queue,
                 peer_alive, workerVars, poolHist, producerVars, batchVars,
                 bufferVars, lifeVars, trackerVars, queueingVars, f_opt,
                 f_num_jsons, f_out, f_ofs>>

\* One pass of the loop in which queue.try_dequeue(batch) succeeds.  A pass
\* in which it fails sleeps and changes nothing.
FileDequeue ==
  /\ f_pc = "loop"
  /\ f_num_jsons < FileTarget /\ ~shutdown
  /\ production_queue # <<>>
  /\ LET b == Head(production_queue)
     IN  /\ batch' = b
         /\ production_queue' = Tail(production_queue)
         /\ f_out' = f_out \o ToStream(f_opt, b)
         /\ f_ofs' = f_ofs \o ToFile(f_opt, b)
         /\ f_num_jsons' = f_num_jsons + b.num_jsons
  /\ num_dequeued' = num_dequeued + 1
  /\ UNCHANGED <<scanVars, sessionVars, opts, s_pc, s_status, repeats,
                 num_messages, total_messages, shutdown, metrics, peer_alive,
                 workerVars, poolHist, p_pc, metrics_, enqueued, late_batches,
                 batchVars, bufferVars, lifeVars, trackerVars, queueingVars,
                 f_opt, f_pc, f_status>>

\* The condition of the loop is false.
FileLoopExit ==
  /\ f_pc = "loop"
  /\ ~(f_num_jsons < FileTarget /\ ~shutdown)
  /\ f_pc' = "finish"
  /\ UNCHANGED <<scanVars, sessionVars, poolVars, batchVars, bufferVars,
                 lifeVars, trackerVars, queueingVars, f_opt, f_status,
                 f_num_jsons, f_out, f_ofs>>

\* producer->Finish(), which waits for every thread, and return Status::OK().
FileFinish ==
  /\ f_pc = "finish"
  /\ \A t \in Spawned(opts) : w_pc[t] = "done"
  /\ joinable' = [t \in Threads |-> FALSE]
  /\ metrics_' = AddMetrics(metrics_, ThreadTotals)
  /\ p_pc' = "finished"
  /\ f_pc' = "returned"
  /\ f_status' = "OK"
  /\ UNCHANGED <<scanVars, sessionVars, serverVars, w_pc, w_args, w_b, w_batch,
                 w_metrics, poolHist, num_dequeued, enqueued, late_batches,
                 batchVars, bufferVars, lifeVars, trackerVars, queueingVars,
                 f_opt, f_num_jsons, f_out, f_ofs>>

NextFile ==
  \/ FileStart
  \/ FileOpen
  \/ FileDequeue
  \/ FileLoopExit
  \/ FileFinish
  \/ \E t \in Threads : WorkerStep(t)

SpecFile == InitFile /\ [][NextFile]_vars

\* The batches RunFile wrote: to the file if there is a path, else to the
\* stream.
FileWritten == IF f_opt.has_path THEN f_ofs ELSE f_out

\* C33: RunFile, for any num_threads >= 1, returns after having written
\* exactly num_batches * num_jsons records, and when verbose and an output
\* path are both set the stream and the file got the same batches, byte for
\* byte.
C33_WritesAllRecords ==
  (f_pc = "returned" /\ f_status = "OK") =>
    /\ RecordsWritten(FileWritten) = FileTarget
    /\ (f_opt.verbose /\ f_opt.has_path) => f_out = f_ofs

\* C33, the second half alone: with verbose and a path, the stream and the
\* file hold the same batches at every moment.
C33_StreamEqualsFile ==
  (f_opt.verbose /\ f_opt.has_path) => f_out = f_ofs

\* C33, one thread: a returned RunFile has written exactly the records asked
\* for.
C33_OneThreadWritesAll ==
  (f_pc = "returned" /\ f_status = "OK" /\ opts.num_threads = 1) =>
    RecordsWritten(FileWritten) = FileTarget


(***************************************************************************)
(* The StreamMetrics that SendJSONs reports.                               *)
(***************************************************************************)
\* C34: after SendJSONs returns OK, the num_bytes of the StreamMetrics it
\* reports is the number of bytes transmitted on the socket over all
\* repetitions: num_bytes starts at 0 and every repetition that ends adds the
\* bytes it has put on the socket.
C34_NumBytesIsBytesSent ==
  [][(s_pc = "finish" /\ s_pc' = "repeat")
       => metrics'.num_bytes = metrics.num_bytes + sock_bytes]_vars

\* C34, for a single repetition, at the return.
C34_NumBytesAtReturn ==
  (s_pc = "returned" /\ s_status = "OK" /\ opts.times = 1)
    => metrics.num_bytes = sock_bytes

\* The num_bytes reported is 0 at every moment.
C34_NumBytesStaysZero == metrics.num_bytes = 0


(***************************************************************************)
(* Termination of JSONBuffer::Scan.                                        *)
(***************************************************************************)
\* C35: Scan terminates for every slice of every length, slices with a record
\* of exactly one byte followed by a separator among them: every call of Scan
\* returns.
C35_ScanTerminates == <>(scan_pc = "done")

\* C35, the slices without a record of exactly one byte: Scan returns.
C35_ScanTerminatesOtherwise ==
  ~HasOneByteRecord(scan_data) ~> (scan_pc = "done")


(***************************************************************************)
(* TryGetEmptyBuffer as the client calls it.                               *)
(***************************************************************************)
\* The client holds no mutex.
ClientHoldsNone == \A j \in DOMAIN buf_cap : mutex[j] # "client"

\* C36: TryGetEmptyBuffer looks at the buffers in the order of their indices,
\* from 0 on.  It passes over a buffer only if the buffer is not empty or its
\* mutex is taken, and returns true at the first buffer that is empty and
\* whose mutex is free, with that index and holding that mutex and no other.
\* It returns false only after having passed over all buffers, holding no
\* mutex.  It never waits, and never locks the mutex of a non-empty buffer.
C36_LowestEmptyBuffer ==
  [][/\ (c_pc = "loop" /\ c_pc' = "try") => (c_i' = 0 /\ ClientHoldsNone)
     /\ (c_pc = "try" /\ (c_pc' # c_pc \/ c_i' # c_i)) =>
          /\ ClientHoldsNone
          /\ c_i' # c_i =>
               /\ c_i' = c_i + 1
               /\ c_pc' = "try"
               /\ c_i \in DOMAIN buf_cap
               /\ (buf_size[c_i] > 0 \/ mutex[c_i] # "free")
               /\ mutex' = mutex
          /\ c_pc' = "recv" =>
               /\ c_i \in DOMAIN buf_cap
               /\ buf_size[c_i] = 0
               /\ mutex[c_i] = "free"
               /\ lock_idx' = c_i
               /\ mutex' = [mutex EXCEPT ![c_i] = "client"]
          /\ c_pc' \notin {"try", "recv"} =>
               /\ c_i = Cardinality(DOMAIN buf_cap)
               /\ mutex' = mutex
     /\ c_pc = "try" => ENABLED TryGetEmptyBuffer]_vars

\* TryGetEmptyBuffer has passed over buffer 0, which holds data, and has
\* returned true with buffer 1, whose mutex the client now holds.
C36_Witness ==
  /\ c_pc = "recv"
  /\ DOMAIN buf_cap = {0, 1}
  /\ lock_idx = 1
  /\ buf_size[0] > 0
  /\ mutex[1] = "client"
  /\ mutex[0] # "client"


(***************************************************************************)
(* The threads of the pool at the return of SendJSONs.                     *)
(***************************************************************************)
\* C37: on every path on which SendJSONs leaves its loop after the pool was
\* started, be it the normal end, a lost peer or a failed send, every thread
\* of the pool has been joined when the Producer is destroyed: no thread is
\* joinable then.
C37_JoinedBeforeDestroyed ==
  s_pc \in {"returned", "terminated"} => \A t \in Threads : ~joinable[t]

\* C37, the normal end alone: SendJSONs has returned OK and no thread is
\* joinable.
C37_JoinedAtNormalEnd ==
  (s_pc = "returned" /\ s_status = "OK") => \A t \in Threads : ~joinable[t]


(***************************************************************************)
(* ReceiveJSONs on buffers of the caller's choice: BufferingClient::Create *)
(* takes any vector of JSONBuffers, whose capacities need not be equal nor *)
(* bounded by ILLEX_DEFAULT_TCP_BUFSIZE, the size of the spill region.     *)
(***************************************************************************)
\* The largest capacity tried: one byte more than the spill region holds.
MaxCapacity == TcpBufSize + 1

InitClientCaps ==
  /\ ScanIdle
  /\ PoolIdle
  /\ BatchIdle
  /\ BufferIdle
  /\ LifeIdle
  /\ lt = ClientTracker
  /\ TrackerUnused
  /\ QueueingIdle
  /\ FileIdle
  /\ stream \in SlicesUpTo(MaxStream)
  /\ wire = stream
  /\ sock_valid = TRUE
  /\ must_be_closed = TRUE
  /\ \E K \in {B \in SUBSET Buffers : \E k \in 1..NumBuffers : B = 0..(k - 1)} :
       /\ buf_cap \in [K -> 1..MaxCapacity]
       /\ buf_data = [i \in K |-> <<>>]
       /\ buf_size = [i \in K |-> 0]
       /\ buf_range = [i \in K |-> NoRange]
       /\ mutex = [i \in K |-> "free"]
       /\ cons_pc = [i \in K |-> "poll"]
  /\ c_pc = "call" /\ c_status = "none" /\ c_i = 0 /\ lock_idx = 0
  /\ remaining = 0 /\ spill = <<>> /\ spill_live = FALSE /\ spill_frees = 0
  /\ seq0 = 0
  /\ seq = seq0
  /\ jsons_received_ = 0 /\ bytes_received_ = 0
  /\ published = <<>> /\ published_bytes = 0 /\ num_reads = 0

SpecClientCaps == InitClientCaps /\ [][NextClient]_vars

\* C38: whatever the capacities of the K >= 1 buffers, in every pass of the
\* loop the bytes carried over fit the spill region and the buffer just
\* acquired, so that the copy from the spill region and the read stay inside
\* the buffer (the read length capacity - remaining does not wrap around) and
\* remaining + bytes_received <= capacity.
C38_RemainingFits ==
  /\ remaining <= TcpBufSize
  /\ c_pc = "recv" => remaining <= buf_cap[lock_idx]
  /\ \A i \in DOMAIN buf_cap : Len(buf_data[i]) <= buf_cap[i]

\* C38, the bytes carried over and the spill region alone.
C38_RemainingFitsSpill == remaining <= TcpBufSize

\* C38, the bytes carried over and the acquired buffer alone.
C38_RemainingFitsBuffer ==
  c_pc = "recv" => remaining <= buf_cap[lock_idx]


(***************************************************************************)
(* The receive buffer of the queueing client.                              *)
(***************************************************************************)
\* C39: the queueing client never writes outside its receive buffer: for
\* every buffer_size given to Create, what the reads and the clearing after
\* each scan write lies within the first buffer_size bytes.
C39_WritesInsideBuffer == q_written <= buffer_size

\* C39, a buffer of the default size: all writes lie inside it.
C39_DefaultSizeInside ==
  buffer_size = TcpBufSize => q_written <= buffer_size

\* C39, the reads alone: no pass of the loop reads more than buffer_size
\* bytes.
C39_ReadsInsideBuffer ==
  [][Len(q_wire) - Len(q_wire') <= buffer_size]_vars


(***************************************************************************)
(* A session in which nothing goes wrong on the connection: the server     *)
(* sends the stream and closes the connection cleanly, the client is not   *)
(* closed by its owner, and the threads keep running: the client thread    *)
(* and, for every buffer, the consumer that resets and unlocks it.         *)
(***************************************************************************)
CleanClientStep ==
  \/ ReceiveEnter
  \/ LoopCheck
  \/ TryGetEmptyBuffer
  \/ Sleep
  \/ RecvData
  \/ RecvDisconnect

\* The consumer thread of buffer i.
Consumer(i) ==
  /\ i \in DOMAIN buf_cap
  /\ ConsumerSee(i) \/ ConsumerLock(i) \/ ConsumerReset(i)

NextCleanSession == CleanClientStep \/ \E i \in Buffers : Consumer(i)

FairSpecSession ==
  /\ InitClient
  /\ [][NextCleanSession]_vars
  /\ WF_vars(CleanClientStep)
  /\ \A i \in Buffers : WF_vars(Consumer(i))

\* The bytes of the stream the client has received.
Received == SubSeq(stream, 1, Len(stream) - Len(wire))

\* ReceiveJSONs has returned OK and has counted and published every complete
\* record among the bytes it received.
ReturnedWithAllRecords ==
  /\ c_pc = "returned"
  /\ c_status = "OK"
  /\ jsons_received_ = RecordsIn(Received) % WordMod
  /\ published_bytes + remaining = Len(Received)

\* C40: when every published buffer is eventually reset and unlocked by its
\* consumer and the server eventually closes the connection cleanly,
\* ReceiveJSONs eventually returns OK, having published every complete record
\* it received before the disconnect.
C40_SessionEnds == <>ReturnedWithAllRecords

\* C40, the streams without a record of exactly one byte: ReceiveJSONs
\* eventually returns OK with every complete record published.
C40_SessionEndsOtherwise ==
  ~HasOneByteRecord(stream) ~> ReturnedWithAllRecords

\* C40, the return alone: ReceiveJSONs eventually returns.
C40_Returns == <>(c_pc = "returned")

=============================================================================
